---- MODULE Spec2Model ----
(***************************************************************************)
(* Model of the knowledge-acquisition layer (WABusinessScraper over a      *)
(* cachetools TTLCache and the sqlite/JSON Database) and of the formation  *)
(* flow-graph synthesizer of BusinessAgent.                                *)
(*                                                                         *)
(* Money is counted in cents (16.66 -> 1666), time in seconds.             *)
(* A Python string the code inspects (href, url, title, business type) is *)
(* the sequence of its characters; a string the code only carries around   *)
(* (question, answer, id) is a TLA+ string.                                *)
(***************************************************************************)
EXTENDS Integers, Sequences, FiniteSets, TLC

VARIABLES now, ticks, calls, cache, ret, hist, resource_links, frame,
          faqs, links, link_seq, blobs, writer, reader, got, saved, tried, saves, gets,
          business_type, formation_steps, flow,
          call, result,
          documents, saved_docs,
          programs

scraperVars == <<now, ticks, calls, cache, ret, hist, resource_links, frame>>

faqVars == <<faqs, links, link_seq, blobs, writer, reader, got, saved, tried, saves, gets>>

flowVars == <<business_type, formation_steps, flow>>

callVars == <<call, result>>

docVars == <<documents, saved_docs>>

vars == <<scraperVars, faqVars, flowVars, callVars, docVars, programs>>

(***************************************************************************)
(* Bounds                                                                  *)
(***************************************************************************)
MaxCalls == 2
MaxScrapes == 1
MaxTicks == 3
MaxSaves == 2
MaxGets == 1

(***************************************************************************)
(* Program constants                                                       *)
(***************************************************************************)
TTL == 3600
base_url == <<"h","t","t","p","s",":","/","/","w","w","w",".","b","u","s","i","n","e","s","s",".","w","a",".","g","o","v">>

Keys == {"minimum_wage", "license_requirements", "fees", "faqs", "resource_links"}

EmptyMap == [x \in {} |-> 0]

Put(m, k, v) == [x \in (DOMAIN m) \cup {k} |-> IF x = k THEN v ELSE m[x]]

(***************************************************************************)
(* cachetools.TTLCache(maxsize=100, ttl=3600), version 5.3.0.  The cache   *)
(* is a map key -> [value, expires]; an entry whose time has come stays in *)
(* the map until the next insertion or clear() expires it.  With five keys *)
(* the capacity of 100 is never reached, so nothing is evicted for size.   *)
(***************************************************************************)
\* a cache that never holds a key
CacheNeverContains(c, k, t) == FALSE

\* a cache whose entries live a second less than the TTL
CacheSetShort(c, k, v, t) ==
    [x \in {y \in DOMAIN c : t < c[y].expires} \cup {k} |->
        IF x = k THEN [value |-> v, expires |-> t + TTL - 1] ELSE c[x]]

Live(c, k, t) == k \in DOMAIN c /\ t < c[k].expires

CacheContains(c, k, t) == Live(c, k, t)

CacheExpire(c, t) == [k \in {x \in DOMAIN c : t < c[x].expires} |-> c[k]]

CacheSet(c, k, v, t) == Put(CacheExpire(c, t), k, [value |-> v, expires |-> t + TTL])

\* self.cache[key]: a record [ok, value]; ok = FALSE is the KeyError
CacheGet(c, k, t) ==
    IF k \in DOMAIN c /\ t < c[k].expires
    THEN [ok |-> TRUE, value |-> c[k].value]
    ELSE [ok |-> FALSE, value |-> <<>>]

(***************************************************************************)
(* Static defaults                                                         *)
(***************************************************************************)
DefaultMinimumWage ==
    [washington |-> 1666, seattle |-> 2076, seatac |-> 2017, tukwila |-> 2110,
     burien |-> 2116, bellingham |-> 1766, everett |-> 2024,
     king_county |-> 2029, renton |-> 2090]

DefaultLicenseRequirements ==
    << "Business requires city/state endorsements",
       "Using business name different from legal name",
       "Planning to hire employees within 90 days",
       "Collecting sales tax",
       "Gross income >= $12,000 per year",
       "Required to pay taxes/fees to Department of Revenue",
       "Buyer/processor of specialty wood products" >>

DefaultFees == [new_business |-> 90, additional |-> 19]

DefaultFaqLink(text, value) ==
    [text |-> text, value |-> value, type |-> "external"]

DefaultFaqs ==
    << [question |-> "What licenses do I need to start a business in Washington?",
        category |-> "licensing",
        links |-> << DefaultFaqLink("Business Licensing",
                        <<"h","t","t","p","s",":","/","/","d","o","r",".","w","a",".","g","o","v","/","o","p","e","n","-","b","u","s","i","n","e","s","s","/","a","p","p","l","y","-","b","u","s","i","n","e","s","s","-","l","i","c","e","n","s","e">>) >>],
       [question |-> "What is the current minimum wage in Washington State?",
        category |-> "compliance",
        links |-> << DefaultFaqLink("Minimum Wage Requirements",
                        <<"h","t","t","p","s",":","/","/","w","w","w",".","l","n","i",".","w","a",".","g","o","v","/","w","o","r","k","e","r","s","-","r","i","g","h","t","s","/","w","a","g","e","s","/","m","i","n","i","m","u","m","-","w","a","g","e","/">>) >>],
       [question |-> "How do I register my business for taxes in Washington?",
        category |-> "taxes",
        links |-> << DefaultFaqLink("Business Tax Registration",
                        <<"h","t","t","p","s",":","/","/","d","o","r",".","w","a",".","g","o","v","/","t","a","x","e","s","-","r","a","t","e","s">>) >>],
       [question |-> "What business structure should I choose?",
        category |-> "planning",
        links |-> << DefaultFaqLink("Business Structures Guide",
                        <<"h","t","t","p","s",":","/","/","w","w","w",".","s","o","s",".","w","a",".","g","o","v","/","c","o","r","p","s","/","l","i","m","i","t","e","d","-","l","i","a","b","i","l","i","t","y","-","c","o","m","p","a","n","i","e","s","-","l","i","m","i","t","e","d","-","p","a","r","t","n","e","r","s","h","i","p","s","-","a","n","d","-","l","i","m","i","t","e","d","-","l","i","a","b","i","l","i","t","y","-","p","a","r","t","n","e","r","s","h","i","p","s",".","a","s","p","x">>) >>],
       [question |-> "Do I need workers' compensation insurance?",
        category |-> "insurance",
        links |-> << DefaultFaqLink("Workers' Compensation Information",
                        <<"h","t","t","p","s",":","/","/","w","w","w",".","l","n","i",".","w","a",".","g","o","v","/","i","n","s","u","r","a","n","c","e","/","i","n","s","u","r","a","n","c","e","-","r","e","q","u","i","r","e","m","e","n","t","s","/">>) >>] >>

DefaultResourceLinks ==
    << [title |-> <<"B","u","s","i","n","e","s","s"," ","L","i","c","e","n","s","e"," ","W","i","z","a","r","d">>,
        url |-> <<"h","t","t","p","s",":","/","/","s","e","c","u","r","e",".","d","o","r",".","w","a",".","g","o","v","/","g","t","e","u","n","a","u","t","h","/","?","L","i","n","k","=","w","i","z">>,
        aria_label |-> <<"B","u","s","i","n","e","s","s"," ","L","i","c","e","n","s","e"," ","W","i","z","a","r","d">>, category |-> "licensing"],
       [title |-> <<"S","m","a","l","l"," ","B","u","s","i","n","e","s","s"," ","G","u","i","d","e">>,
        url |-> base_url \o <<"/","s","i","t","e","/","a","l","i","a","s","_","_","b","u","s","i","n","e","s","s","/","8","7","5","/","H","o","m","e",".","a","s","p","x","#","a","n","c","h","o","r","-","3","5","7","4">>,
        aria_label |-> <<"S","m","a","l","l"," ","B","u","s","i","n","e","s","s"," ","G","u","i","d","e">>, category |-> "guidance"],
       [title |-> <<"S","t","a","r","t","i","n","g"," ","a"," ","B","u","s","i","n","e","s","s">>,
        url |-> base_url \o <<"/","s","i","t","e","/","a","l","i","a","s","_","_","b","u","s","i","n","e","s","s","/","8","7","6","/","S","m","a","l","l","-","B","u","s","i","n","e","s","s","-","G","u","i","d","e","-","-","S","t","a","r","t",".","a","s","p","x">>,
        aria_label |-> <<"S","t","a","r","t","i","n","g"," ","a"," ","B","u","s","i","n","e","s","s">>, category |-> "planning"] >>

\* the default the except branch of _get_cached_or_fetch picks for a key;
\* ok = FALSE is the bare re-raise for a key without a branch
DefaultFor(key) ==
    CASE key = "minimum_wage"         -> [ok |-> TRUE, value |-> DefaultMinimumWage]
      [] key = "license_requirements" -> [ok |-> TRUE, value |-> DefaultLicenseRequirements]
      [] key = "fees"                 -> [ok |-> TRUE, value |-> DefaultFees]
      [] key = "faqs"                 -> [ok |-> TRUE, value |-> DefaultFaqs]
      [] OTHER                        -> [ok |-> FALSE, value |-> <<>>]

(***************************************************************************)
(* Python str operations on character sequences                            *)
(***************************************************************************)
UpperChars == <<"A","B","C","D","E","F","G","H","I","J","K","L","M","N","O","P","Q","R","S","T","U","V","W","X","Y","Z">>
LowerChars == <<"a","b","c","d","e","f","g","h","i","j","k","l","m","n","o","p","q","r","s","t","u","v","w","x","y","z">>

IndexIn(ch, chars) ==
    IF \E i \in 1..Len(chars) : chars[i] = ch
    THEN CHOOSE i \in 1..Len(chars) : chars[i] = ch
    ELSE 0

LowerChar(ch) == IF IndexIn(ch, UpperChars) > 0 THEN LowerChars[IndexIn(ch, UpperChars)] ELSE ch

UpperChar(ch) == IF IndexIn(ch, LowerChars) > 0 THEN UpperChars[IndexIn(ch, LowerChars)] ELSE ch

IsAlpha(ch) == IndexIn(ch, UpperChars) > 0 \/ IndexIn(ch, LowerChars) > 0

\* str.lower()
Lower(s) == [i \in 1..Len(s) |-> LowerChar(s[i])]

\* str.replace(a, b) for single characters a, b
Replace(s, a, b) == [i \in 1..Len(s) |-> IF s[i] = a THEN b ELSE s[i]]

\* str.capitalize(): the first character upper-cased, the rest lower-cased
Capitalize(s) == [i \in 1..Len(s) |-> IF i = 1 THEN UpperChar(s[i]) ELSE LowerChar(s[i])]

\* str.title(): a letter is upper-cased after a non-letter, lower-cased after a letter
Title(s) ==
    [i \in 1..Len(s) |->
        IF i > 1 /\ IsAlpha(s[i - 1]) THEN LowerChar(s[i]) ELSE UpperChar(s[i])]

\* str.startswith(p)
StartsWith(s, p) == Len(p) <= Len(s) /\ SubSeq(s, 1, Len(p)) = p

\* p in s
Contains(s, p) == \E i \in 1..(Len(s) - Len(p) + 1) : SubSeq(s, i, i + Len(p) - 1) = p

\* str(n) for n >= 0
RECURSIVE DecimalString(_)
DecimalString(n) == IF n < 10 THEN ToString(n) ELSE DecimalString(n \div 10) \o ToString(n % 10)

(***************************************************************************)
(* WABusinessScraper: helpers                                              *)
(***************************************************************************)
NormalizeUrl(url) ==
    IF StartsWith(url, <<"h","t","t","p">>) THEN url
    ELSE IF StartsWith(url, <<"/">>) THEN base_url \o url
    ELSE base_url \o <<"/">> \o url

LicensingWords ==
    << <<"l","i","c","e","n","s","e">>, <<"p","e","r","m","i","t">>, <<"r","e","g","i","s","t","r","a","t","i","o","n">>, <<"b","u","s","i","n","e","s","s"," ","s","e","r","v","i","c","e">>, <<"e","n","d","o","r","s","e","m","e","n","t">>,
       <<"c","e","r","t","i","f","i","c","a","t","i","o","n">>, <<"r","e","g","u","l","a","t","o","r","y">>, <<"c","o","m","p","l","i","a","n","c","e">>, <<"f","i","l","i","n","g">>, <<"r","e","g","i","s","t","e","r">>,
       <<"d","o","r",".","w","a",".","g","o","v">>, <<"u","b","i">>, <<"t","a","x">>, <<"r","e","v","e","n","u","e">> >>

PlanningWords ==
    << <<"p","l","a","n">>, <<"s","t","a","r","t">>, <<"o","p","e","n","i","n","g">>, <<"c","h","e","c","k","l","i","s","t">>, <<"s","t","r","a","t","e","g","y">>, <<"r","o","a","d","m","a","p">>,
       <<"p","r","e","p","a","r","a","t","i","o","n">>, <<"s","e","t","u","p">>, <<"e","s","t","a","b","l","i","s","h">>, <<"l","a","u","n","c","h">>, <<"a","s","s","e","s","s","m","e","n","t">>,
       <<"b","u","s","i","n","e","s","s","-","p","l","a","n">>, <<"s","t","a","r","t","u","p">>, <<"p","l","a","n","n","i","n","g">>, <<"m","a","r","k","e","t","-","r","e","s","e","a","r","c","h">> >>

ToolsWords ==
    << <<"c","a","l","c","u","l","a","t","o","r">>, <<"p","a","y","r","o","l","l">>, <<"a","s","s","i","s","t","a","n","c","e"," ","t","o","o","l","s">>, <<"w","i","z","a","r","d">>, <<"e","s","t","i","m","a","t","o","r">>,
       <<"f","o","r","m","s">>, <<"t","e","m","p","l","a","t","e","s">>, <<"s","o","f","t","w","a","r","e">>, <<"p","o","r","t","a","l">>, <<"s","y","s","t","e","m">>, <<"f","i","n","d","e","r">>,
       <<"t","o","o","l">>, <<"a","p","p">>, <<"a","p","p","l","i","c","a","t","i","o","n">>, <<"s","e","c","u","r","e",".","d","o","r">>, <<"b","l","s",".","d","o","r">> >>

GuidanceWords ==
    << <<"g","u","i","d","e">>, <<"l","i","a","i","s","o","n">>, <<"q","u","e","s","t","i","o","n","s">>, <<"r","e","s","e","a","r","c","h">>, <<"c","o","n","t","a","c","t">>, <<"h","e","l","p">>,
       <<"s","u","p","p","o","r","t">>, <<"a","s","s","i","s","t","a","n","c","e">>, <<"r","e","s","o","u","r","c","e","s">>, <<"i","n","f","o","r","m","a","t","i","o","n">>, <<"f","a","q">>, <<"l","e","a","r","n">>,
       <<"e","d","u","c","a","t","i","o","n">>, <<"t","r","a","i","n","i","n","g">>, <<"m","e","n","t","o","r">>, <<"c","o","n","s","u","l","t">>, <<"h","a","n","d","b","o","o","k">>, <<"m","a","n","u","a","l">>,
       <<"s","m","a","l","l","-","b","u","s","i","n","e","s","s","-","g","u","i","d","e">>, <<"h","e","l","p",".","b","u","s","i","n","e","s","s">>, <<"s","b","d","c">>, <<"s","c","o","r","e">> >>

AnyWordIn(words, text) == \E i \in 1..Len(words) : Contains(text, words[i])

\* a categorizer that looks at the tools words first
CategorizeResourceToolsFirst(title, url) ==
    LET search_text == Lower(title) \o <<" ">> \o Lower(url)
    IN  IF AnyWordIn(ToolsWords, search_text) THEN "tools"
        ELSE IF AnyWordIn(LicensingWords, search_text) THEN "licensing"
        ELSE IF AnyWordIn(PlanningWords, search_text) THEN "planning"
        ELSE IF AnyWordIn(GuidanceWords, search_text) THEN "guidance"
        ELSE "other"

CategorizeResource(title, url) ==
    LET search_text == Lower(title) \o <<" ">> \o Lower(url)
    IN  IF AnyWordIn(LicensingWords, search_text) THEN "licensing"
        ELSE IF AnyWordIn(PlanningWords, search_text) THEN "planning"
        ELSE IF AnyWordIn(ToolsWords, search_text) THEN "tools"
        ELSE IF AnyWordIn(GuidanceWords, search_text) THEN "guidance"
        ELSE "other"

(***************************************************************************)
(* Database (sqlite3 + JSON files).  A table is the set of its rows, a     *)
(* content directory the map from file name to the JSON it holds.  The     *)
(* links table, whose key is AUTOINCREMENT, is the sequence of its rows in *)
(* rowid order, and link_seq the largest rowid ever committed.             *)
(***************************************************************************)
\* INSERT OR REPLACE: the row of the same primary key goes, the new row comes
\* the table emptied before the insert
InsertAfterDelete(table, row) == {row}

InsertOrReplace(table, row) == {r \in table : r.id # row.id} \cup {row}

Ids(table) == {r.id : r \in table}

Row(table, id) == CHOOSE r \in table : r.id = id

\* resource.get('id') or title.lower().replace(' ', '_'); the resource dicts
\* the scraper builds carry no 'id'
ResourceId(resource) == Replace(Lower(resource.title), " ", "_")

SaveResourceLink(table, resource) ==
    InsertOrReplace(table,
        [id |-> ResourceId(resource), title |-> resource.title, url |-> resource.url,
         aria_label |-> resource.aria_label, category |-> resource.category])

\* Python's None
None == "None"

ContentFile(faq_id) == "faq_" \o faq_id \o ".json"

\* the dict keys save_faq subscripts before it writes anything (lines 81-88)
HasBlobKeys(faq) == {"metadata", "answer", "html_answer"} \subseteq DOMAIN faq

\* lines 89-90: the JSON file is written before, and outside, the transaction
WriteFaqBlob(files, faq) ==
    Put(files, ContentFile(faq.metadata.id),
        [answer |-> faq.answer, html_answer |-> faq.html_answer])

\* a statement of the transaction raises: a missing dict key, or a NULL in a
\* NOT NULL column
RowRaises(faq) ==
    \/ ~({"question", "category"} \subseteq DOMAIN faq)
    \/ faq.question = None \/ faq.category = None

LinkRaises(link) == link.text = None \/ link.value = None \/ link.type = None

RECURSIVE InsertLinks(_, _, _, _)
InsertLinks(rows, seq, faq_id, new) ==
    IF new = <<>> THEN [ok |-> TRUE, links |-> rows, link_seq |-> seq]
    ELSE IF LinkRaises(Head(new)) THEN [ok |-> FALSE, links |-> rows, link_seq |-> seq]
    ELSE InsertLinks(Append(rows, [id |-> seq + 1, faq_id |-> faq_id,
                                   text |-> Head(new).text, value |-> Head(new).value,
                                   type |-> Head(new).type]),
                     seq + 1, faq_id, Tail(new))

\* DELETE FROM links without its WHERE clause
DeleteEveryLink(rows, faq_id) == <<>>

\* a save_faq that leaves the old links of the id in place
KeepLinks(rows, faq_id) == rows

DeleteLinks(rows, faq_id) == SelectSeq(rows, LAMBDA r : r.faq_id # faq_id)

UpsertFaqRow(table, faq) ==
    InsertOrReplace(table, [id |-> faq.metadata.id, question |-> faq.question,
                            category |-> faq.category,
                            content_file |-> ContentFile(faq.metadata.id)])

\* lines 93-108: with self.conn: the three statements commit together, or an
\* exception (fails: one the database raises by itself, locked or I/O error)
\* rolls all of them back
SaveFaqTransaction(table, rows, seq, faq, fails) ==
    IF fails \/ RowRaises(faq)
    THEN [ok |-> FALSE, faqs |-> table, links |-> rows, link_seq |-> seq]
    ELSE LET ins == InsertLinks(DeleteLinks(rows, faq.metadata.id), seq,
                                faq.metadata.id, faq.links)
         IN  IF ins.ok
             THEN [ok |-> TRUE, faqs |-> UpsertFaqRow(table, faq),
                   links |-> ins.links, link_seq |-> ins.link_seq]
             ELSE [ok |-> FALSE, faqs |-> table, links |-> rows, link_seq |-> seq]

\* SELECT text, value, type FROM links WHERE faq_id = ?
SelectLinks(rows, faq_id) ==
    LET mine == SelectSeq(rows, LAMBDA r : r.faq_id = faq_id)
    IN  [i \in 1..Len(mine) |->
            [text |-> mine[i].text, value |-> mine[i].value, type |-> mine[i].type]]

\* the dict get_faq builds from the row, the links and the JSON content
FaqDict(row, row_links, content) ==
    [question |-> row.question, answer |-> content.answer,
     html_answer |-> content.html_answer, category |-> row.category,
     links |-> row_links, metadata |-> [id |-> row.id]]

\* get_faq run from start to end: [found, faq]
GetFaq(table, rows, files, faq_id) ==
    IF faq_id \notin Ids(table) THEN [found |-> FALSE, faq |-> None]
    ELSE [found |-> TRUE,
          faq |-> FaqDict(Row(table, faq_id), SelectLinks(rows, faq_id),
                          files[Row(table, faq_id).content_file])]

(***************************************************************************)
(* What the upstream site serves: the inputs of the fetch closures.  A     *)
(* page is what the extraction reads off it; ok = FALSE is _fetch_page     *)
(* raising (network error or non-2xx status).                              *)
(***************************************************************************)
NoPage == [ok |-> FALSE]

FeeAmountLists == { <<>>, <<90>>, <<19>>, <<90, 19>>, <<50>> }

FeesPages ==
    {NoPage} \cup {[ok |-> TRUE, section |-> FALSE, amounts |-> <<>>]}
             \cup {[ok |-> TRUE, section |-> TRUE, amounts |-> a] : a \in FeeAmountLists}

city_patterns ==
    << "seattle", "seatac", "tukwila", "burien", "bellingham", "everett",
       "king_county", "renton" >>

\* the cities whose pattern matches the local page, with the matched amount
LocalMatches ==
    { EmptyMap, [seattle |-> 2076], [seattle |-> 2076, renton |-> 2090] }

\* state_wage = 0: no "The 2025 Minimum Wage" section, or no amount in it;
\* else the amount the section shows
WagePages ==
    {[state_ok |-> FALSE, state_wage |-> 0, local_ok |-> FALSE, found |-> EmptyMap]}
    \cup {[state_ok |-> TRUE, state_wage |-> w, local_ok |-> FALSE, found |-> EmptyMap] :
            w \in {0, 1666, 1713}}
    \cup {[state_ok |-> TRUE, state_wage |-> w, local_ok |-> TRUE, found |-> f] :
            w \in {0, 1666, 1713}, f \in LocalMatches}

\* an <li>/<p> of the section: its stripped text and whether it holds an <a>
LicenseItemLists ==
    { <<>>,
      << [text |-> "", anchor |-> FALSE] >>,
      << [text |-> "Collecting sales tax", anchor |-> FALSE] >>,
      << [text |-> "Home", anchor |-> TRUE],
         [text |-> "Planning to hire employees within 90 days", anchor |-> FALSE] >> }

LicensePages ==
    {NoPage} \cup {[ok |-> TRUE, section |-> FALSE, items |-> <<>>]}
             \cup {[ok |-> TRUE, section |-> TRUE, items |-> l] : l \in LicenseItemLists}

\* a card of the FAQ section: whether a question and an answer element are
\* found, the id attributes, the stripped texts and the <a> of the answer
CardPlain ==
    [question |-> TRUE, answer |-> TRUE, id |-> "", qid |-> "",
     qtext |-> "Do I need a business license?", atext |-> "Most businesses do.",
     anchors |-> << [text |-> "Apply", href |-> <<"/","o","p","e","n","-","b","u","s","i","n","e","s","s","/","a","p","p","l","y">> ] >>]

CardWithId ==
    [question |-> TRUE, answer |-> TRUE, id |-> "faq_2", qid |-> "",
     qtext |-> "Who do I contact?", atext |-> "Write to the department.",
     anchors |-> << [text |-> "Email us", href |-> <<"m","a","i","l","t","o",":","b","l","s","@","d","o","r",".","w","a",".","g","o","v">> ] >>]

CardNoAnswer ==
    [question |-> TRUE, answer |-> FALSE, id |-> "", qid |-> "q9",
     qtext |-> "What is a UBI?", atext |-> "", anchors |-> <<>>]

CardLists ==
    { <<>>, <<CardNoAnswer>>, <<CardPlain>>, <<CardWithId, CardPlain>>,
      <<CardPlain, CardNoAnswer, CardPlain>> }

FaqPages ==
    {NoPage} \cup {[ok |-> TRUE, section |-> FALSE, cards |-> <<>>]}
             \cup {[ok |-> TRUE, section |-> TRUE, cards |-> l] : l \in CardLists}

\* a link-txt-box of the resources section: whether it holds an <h6> and an
\* <a>, the stripped title, the href and the aria-label
BoxWizard ==
    [has_title |-> TRUE, has_link |-> TRUE, title |-> <<"B","u","s","i","n","e","s","s"," ","L","i","c","e","n","s","e"," ","W","i","z","a","r","d">>,
     href |-> <<"h","t","t","p","s",":","/","/","s","e","c","u","r","e",".","d","o","r",".","w","a",".","g","o","v","/","g","t","e","u","n","a","u","t","h","/","?","L","i","n","k","=","w","i","z">>, aria_label |-> <<"W","i","z","a","r","d">>]

BoxGuide ==
    [has_title |-> TRUE, has_link |-> TRUE, title |-> <<"S","m","a","l","l"," ","B","u","s","i","n","e","s","s"," ","G","u","i","d","e">>,
     href |-> <<"/","s","i","t","e","/","a","l","i","a","s","_","_","b","u","s","i","n","e","s","s","/","8","7","5","/","H","o","m","e",".","a","s","p","x">>, aria_label |-> <<>>]

BoxNoTitle ==
    [has_title |-> FALSE, has_link |-> TRUE, title |-> <<>>,
     href |-> <<"m","o","r","e",".","a","s","p","x">>, aria_label |-> <<>>]

Boxes == {BoxWizard, BoxGuide, BoxNoTitle}

BoxLists ==
    { <<>>, <<BoxNoTitle>>, <<BoxWizard>>, <<BoxWizard, BoxGuide>>,
      <<BoxGuide, BoxNoTitle, BoxWizard>> }

\* save_fails: the positions of the boxes whose save_resource_link raises;
\* export_fails: export_resource_links_to_csv raises
ResourcePages ==
    {[ok |-> FALSE, section |-> FALSE, boxes |-> <<>>, save_fails |-> {},
      export_fails |-> FALSE]}
    \cup {[ok |-> TRUE, section |-> FALSE, boxes |-> <<>>, save_fails |-> {},
           export_fails |-> e] : e \in BOOLEAN}
    \cup UNION { {[ok |-> TRUE, section |-> TRUE, boxes |-> l, save_fails |-> f,
                   export_fails |-> e] : f \in SUBSET (1..Len(l)), e \in BOOLEAN} :
                 l \in BoxLists }

(***************************************************************************)
(* The fetch closures.  Each returns                                       *)
(*   value   what the closure returns                                      *)
(*   source  "scraped": extracted from the page; "empty": the page gave    *)
(*           nothing and the default was substituted; "error": an          *)
(*           exception was caught and the default was substituted          *)
(*   raised  the closure let an exception out (none of them does)          *)
(* and the closure of get_resource_links, which writes to the Database,    *)
(* also                                                                    *)
(*   table   the resource_links table after the closure                    *)
(*   saves   the resources handed to save_resource_link, in order          *)
(*   page    the page it read                                              *)
(***************************************************************************)
\* a closure without its try/except: the failure leaves it as an exception
OutcomeUncaught(value, source) ==
    [value |-> value, source |-> source, raised |-> source = "error"]

Outcome(value, source) == [value |-> value, source |-> source, raised |-> FALSE]

RECURSIVE CityLoop(_, _, _)
CityLoop(found, i, wage_data) ==
    IF i > Len(city_patterns) THEN wage_data
    ELSE CityLoop(found, i + 1,
                  IF city_patterns[i] \in DOMAIN found
                  THEN Put(wage_data, city_patterns[i], found[city_patterns[i]])
                  ELSE wage_data)

FetchMinimumWage(page) ==
    IF ~page.state_ok THEN Outcome(DefaultMinimumWage, "error")
    ELSE LET state_data == IF page.state_wage > 0
                           THEN Put(EmptyMap, "washington", page.state_wage)
                           ELSE EmptyMap
         IN  IF ~page.local_ok THEN Outcome(DefaultMinimumWage, "error")
             ELSE LET wage_data == CityLoop(page.found, 1, state_data)
                  IN  IF DOMAIN wage_data = {}
                      THEN Outcome(DefaultMinimumWage, "empty")
                      ELSE Outcome(wage_data, "scraped")

RECURSIVE RequirementsLoop(_, _, _)
RequirementsLoop(items, i, requirements) ==
    IF i > Len(items) THEN requirements
    ELSE RequirementsLoop(items, i + 1,
                          IF items[i].text # "" /\ ~items[i].anchor
                          THEN Append(requirements, items[i].text)
                          ELSE requirements)

FetchLicenseRequirements(page) ==
    IF ~page.ok THEN Outcome(DefaultLicenseRequirements, "error")
    ELSE LET requirements == IF page.section THEN RequirementsLoop(page.items, 1, <<>>)
                             ELSE <<>>
         IN  IF requirements = <<>>
             THEN Outcome(DefaultLicenseRequirements, "empty")
             ELSE Outcome(requirements, "scraped")

RECURSIVE FeesLoop(_, _, _)
FeesLoop(amounts, i, fees) ==
    IF i > Len(amounts) THEN fees
    ELSE FeesLoop(amounts, i + 1,
                  IF amounts[i] = 90 THEN Put(fees, "new_business", amounts[i])
                  ELSE IF amounts[i] = 19 THEN Put(fees, "additional", amounts[i])
                  ELSE fees)

FetchFees(page) ==
    IF ~page.ok THEN Outcome(DefaultFees, "error")
    ELSE LET fees == IF page.section THEN FeesLoop(page.amounts, 1, EmptyMap) ELSE EmptyMap
         IN  IF DOMAIN fees = {}
             THEN Outcome(DefaultFees, "empty")
             ELSE Outcome(fees, "scraped")

FaqLink(a) ==
    IF StartsWith(a.href, <<"m","a","i","l","t","o",":">>)
    THEN [text |-> a.text, value |-> a.href, type |-> "email"]
    ELSE [text |-> a.text, value |-> NormalizeUrl(a.href), type |-> "url"]

FaqOfCard(card, scraped) ==
    [question |-> card.qtext,
     answer   |-> card.atext,
     links    |-> [i \in 1..Len(card.anchors) |-> FaqLink(card.anchors[i])],
     metadata |-> [id |-> IF card.id # "" THEN card.id
                          ELSE IF card.qid # "" THEN card.qid
                          ELSE "faq_" \o DecimalString(Len(scraped) + 1)]]

RECURSIVE FaqLoop(_, _, _)
FaqLoop(cards, i, scraped) ==
    IF i > Len(cards) THEN scraped
    ELSE FaqLoop(cards, i + 1,
                 IF cards[i].question /\ cards[i].answer
                 THEN Append(scraped, FaqOfCard(cards[i], scraped))
                 ELSE scraped)

\* get_faqs' closure: it makes no call on self.db
FetchFaqs(page) ==
    IF ~page.ok THEN Outcome(DefaultFaqs, "error")
    ELSE LET scraped == IF page.section THEN FaqLoop(page.cards, 1, <<>>) ELSE <<>>
         IN  IF scraped = <<>>
             THEN Outcome(DefaultFaqs, "empty")
             ELSE Outcome(scraped, "scraped")

ResourceOfBox(box) ==
    [title      |-> box.title,
     url        |-> NormalizeUrl(box.href),
     aria_label |-> box.aria_label,
     category   |-> CategorizeResource(box.title, box.href)]

\* ResourceOfBox on the boxes the pages hold, computed once
ResourceOf == [b \in Boxes |-> ResourceOfBox(b)]

\* the save made before the append and outside a try/except: a save that
\* raises ends the iteration and the link is not collected
ResourceStepSaveFirst(acc, resource, save_raises) ==
    IF save_raises THEN [acc EXCEPT !.saves = Append(@, resource)]
    ELSE [resources |-> Append(acc.resources, resource),
          table     |-> SaveResourceLink(acc.table, resource),
          saves     |-> Append(acc.saves, resource)]

\* lines 386-392: append, then save inside its own try/except
ResourceStep(acc, resource, save_raises) ==
    [resources |-> Append(acc.resources, resource),
     table     |-> IF save_raises THEN acc.table ELSE SaveResourceLink(acc.table, resource),
     saves     |-> Append(acc.saves, resource)]

RECURSIVE ResourceLoop(_, _, _, _)
ResourceLoop(boxes, i, save_fails, acc) ==
    IF i > Len(boxes) THEN acc
    ELSE ResourceLoop(boxes, i + 1, save_fails,
                      IF boxes[i].has_title /\ boxes[i].has_link
                      THEN ResourceStep(acc, ResourceOf[boxes[i]], i \in save_fails)
                      ELSE acc)

\* the CSV export that follows writes a file only; its exception is caught
FetchResourceLinks(page, table) ==
    IF ~page.ok
    THEN Outcome(DefaultResourceLinks, "error")
         @@ [table |-> table, saves |-> <<>>, page |-> page]
    ELSE LET start == [resources |-> <<>>, table |-> table, saves |-> <<>>]
             acc == IF page.section
                    THEN ResourceLoop(page.boxes, 1, page.save_fails, start)
                    ELSE start
         IN  (IF acc.resources = <<>>
              THEN Outcome(DefaultResourceLinks, "empty")
              ELSE Outcome(acc.resources, "scraped"))
             @@ [table |-> acc.table, saves |-> acc.saves, page |-> page]

\* what each closure can do, over the pages the site can serve
MinimumWageRuns == {FetchMinimumWage(p) : p \in WagePages}
LicenseRequirementsRuns == {FetchLicenseRequirements(p) : p \in LicensePages}
FeesRuns == {FetchFees(p) : p \in FeesPages}
FaqsRuns == {FetchFaqs(p) : p \in FaqPages}
ResourceLinksRuns(table) == {FetchResourceLinks(p, table) : p \in ResourcePages}

\* the runs of a closure that fail at the fetch or scrape one fixed page
Lean(runs, value) == {r \in runs : r.source = "error" \/ r.value = value}

(***************************************************************************)
(* State                                                                   *)
(*   now             the clock the TTLCache reads (time.monotonic)         *)
(*   cache           WABusinessScraper.cache                               *)
(*   resource_links  the resource_links table of the Database              *)
(*   ret             the last accessor call that ended: its key, whether   *)
(*                   it returned or raised, the value, whether the fetch   *)
(*                   closure ran (and what it did), the time, and prev:    *)
(*                   hist[key] as the call found it                        *)
(*   hist            per key, the value the last call returned and, of the *)
(*                   cache entry it came from, the expiry, the time it was *)
(*                   stored and the source of the run that produced it;    *)
(*                   valid is reset by clear_cache                         *)
(*   calls, ticks    counters that bound the exploration                   *)
(*   frame           per caller, where its accessor call stands when the   *)
(*                   call is followed statement by statement: idle, at the *)
(*                   fetch (line 28) or at the final read (line 40)        *)
(***************************************************************************)
Callers == {"c1", "c2"}

NoRun == [source |-> "none"]

Idle == [pc |-> "idle", key |-> "none", fetched |-> FALSE, run |-> NoRun]

NoHist == [valid |-> FALSE, value |-> <<>>, expires |-> 0, stored |-> 0, source |-> "none"]

NoRet == [key |-> "none", outcome |-> "none", value |-> <<>>, fetched |-> FALSE,
          run |-> NoRun, time |-> 0, prev |-> NoHist]

InitScraper ==
    /\ now = 0
    /\ ticks = 0
    /\ calls = 0
    /\ cache = EmptyMap
    /\ ret = NoRet
    /\ hist = [k \in Keys |-> NoHist]
    /\ resource_links = {}
    /\ frame = [c \in Callers |-> Idle]

\* _get_cached_or_fetch(key, fetch_func) run from start to end at time t,
\* where run is what fetch_func does if it is called:
\* [cache, outcome, value, fetched]
GetCachedOrFetch(c, key, run, t) ==
    IF ~CacheContains(c, key, t)
    THEN IF run.raised
         THEN \* except Exception: the default of the key, or the re-raise
              [cache |-> c, fetched |-> TRUE,
               outcome |-> IF DefaultFor(key).ok THEN "returned" ELSE "raised",
               value |-> DefaultFor(key).value]
         ELSE LET c2 == CacheSet(c, key, run.value, t)
              IN  [cache |-> c2, fetched |-> TRUE,
                   outcome |-> IF CacheGet(c2, key, t).ok THEN "returned" ELSE "raised",
                   value |-> CacheGet(c2, key, t).value]
    ELSE [cache |-> c, fetched |-> FALSE,
          outcome |-> IF CacheGet(c, key, t).ok THEN "returned" ELSE "raised",
          value |-> CacheGet(c, key, t).value]

\* an accessor called and run to its end with the clock at now; saves tells
\* whether its closure writes the resource_links table
Accessor(key, runs, saves_links, limit) ==
    /\ calls < limit
    /\ \E run \in runs :
         LET r == GetCachedOrFetch(cache, key, run, now)
         IN  /\ cache' = r.cache
             /\ resource_links' = IF r.fetched /\ saves_links THEN run.table ELSE resource_links
             /\ ret' = [key |-> key, outcome |-> r.outcome, value |-> r.value,
                        fetched |-> r.fetched,
                        run |-> IF r.fetched THEN run ELSE NoRun,
                        time |-> now, prev |-> hist[key]]
             /\ hist' = [hist EXCEPT ![key] =
                           IF r.outcome = "returned" /\ key \in DOMAIN r.cache
                           THEN [valid |-> TRUE, value |-> r.value,
                                 expires |-> r.cache[key].expires,
                                 stored |-> IF r.fetched THEN now ELSE hist[key].stored,
                                 source |-> IF r.fetched THEN run.source
                                            ELSE hist[key].source]
                           ELSE NoHist]
    /\ calls' = calls + 1
    /\ UNCHANGED <<now, ticks, frame, faqVars, flowVars, callVars, docVars, programs>>

GetMinimumWage(runs, limit) == Accessor("minimum_wage", runs, FALSE, limit)

GetLicenseRequirements(runs, limit) == Accessor("license_requirements", runs, FALSE, limit)

GetFees(runs, limit) == Accessor("fees", runs, FALSE, limit)

GetFaqs(runs, limit) == Accessor("faqs", runs, FALSE, limit)

GetResourceLinks(runs, limit) == Accessor("resource_links", runs, TRUE, limit)

ClearCache ==
    /\ cache' = EmptyMap
    /\ hist' = [k \in Keys |-> NoHist]
    /\ UNCHANGED <<now, ticks, calls, ret, resource_links, frame, faqVars, flowVars, callVars, docVars, programs>>

\* time passes: by a second, or by a second less than the TTL
Tick ==
    /\ ticks < MaxTicks
    /\ \E d \in {1, TTL - 1} : now' = now + d
    /\ ticks' = ticks + 1
    /\ UNCHANGED <<calls, cache, ret, hist, resource_links, frame, faqVars, flowVars, callVars, docVars, programs>>

(***************************************************************************)
(* BusinessAgent.generate_formation_flow.  A step is a record with a title *)
(* and a category, and parallel_steps where the catalog gives them; a      *)
(* graph is [nodes, edges], an edge the pair <<from, to>>.                 *)
(***************************************************************************)
Step(title, category) == [title |-> title, category |-> category]

StepWith(title, category, parallel_steps) ==
    [title |-> title, category |-> category, parallel_steps |-> parallel_steps]

RideshareSteps ==
    << Step("Register as a Sole Proprietorship or LLC", "legal"),
       Step("Get UBI Number", "administrative"),
       Step("Federal EIN (Optional for Sole Proprietorship)", "administrative"),
       Step("Business License", "legal"),
       StepWith("Vehicle Requirements", "compliance",
                << Step("Vehicle Registration and Insurance", "compliance"),
                   Step("Vehicle Inspection", "compliance"),
                   Step("For-Hire Vehicle Endorsement", "legal") >>),
       StepWith("Driver Requirements", "compliance",
                << Step("For-Hire Driver's License", "legal"),
                   Step("Background Check", "compliance"),
                   Step("Medical Examination", "compliance") >>),
       StepWith("Platform Setup", "administrative",
                << Step("Sign up with Uber/Lyft", "administrative"),
                   Step("Complete Platform Training", "administrative"),
                   Step("Set Up Payment Processing", "financial") >>),
       Step("Business Insurance", "compliance"),
       Step("Tax Registration", "financial") >>

FoodTruckSteps ==
    << Step("Choose Business Structure", "legal"),
       Step("Register Business Name", "administrative"),
       Step("Get UBI Number", "administrative"),
       Step("Federal EIN", "administrative"),
       Step("Business License", "legal"),
       StepWith("Food Service Permits", "compliance",
                << Step("Food Worker Card", "compliance"),
                   Step("Mobile Food Unit Permit", "compliance"),
                   Step("Health Department Inspection", "compliance") >>),
       StepWith("Vehicle Requirements", "compliance",
                << Step("Vehicle Registration", "administrative"),
                   Step("Vehicle Inspection", "compliance"),
                   Step("Equipment Installation", "compliance") >>),
       Step("Location Permits", "compliance"),
       Step("Business Insurance", "compliance"),
       Step("Sales Tax Registration", "financial") >>

SalonSteps ==
    << Step("Choose Business Structure", "legal"),
       Step("Register Business Name", "administrative"),
       Step("Get UBI Number", "administrative"),
       Step("Federal EIN", "administrative"),
       Step("Business License", "legal"),
       StepWith("Cosmetology Licenses", "compliance",
                << Step("Cosmetology License", "compliance"),
                   Step("Barber License (if applicable)", "compliance"),
                   Step("Esthetician License (if applicable)", "compliance") >>),
       StepWith("Location Setup", "compliance",
                << Step("Find Suitable Location", "administrative"),
                   Step("Sign Lease Agreement", "legal"),
                   Step("Obtain Zoning Permits", "compliance") >>),
       StepWith("Health & Safety Requirements", "compliance",
                << Step("Health Department Inspection", "compliance"),
                   Step("Fire Safety Inspection", "compliance"),
                   Step("Set Up Sanitation Stations", "compliance") >>),
       Step("Equipment & Supplies", "administrative"),
       Step("Business Insurance", "compliance"),
       Step("Sales Tax Registration", "financial"),
       Step("Marketing & Advertising", "administrative") >>

GenericSteps ==
    << Step("Choose Business Structure", "legal"),
       Step("Register Business Name", "administrative"),
       Step("Get UBI Number", "administrative"),
       Step("Federal EIN", "administrative"),
       Step("Business License", "legal"),
       Step("Industry Permits", "compliance"),
       Step("Business Insurance", "compliance"),
       Step("Sales Tax Registration", "financial") >>

\* a resolution that looks for the salon words before the rideshare words
\* the food-truck catalog taken for any one of its five words
GetFormationStepsAnyFoodWord(type) ==
    LET t == Lower(type)
    IN  IF Contains(t, <<"r","i","d","e","s","h","a","r","e">>) \/ AnyWordIn(<<<<"u","b","e","r">>, <<"l","y","f","t">>, <<"t","a","x","i">>>>, t)
        THEN RideshareSteps
        ELSE IF AnyWordIn(<<<<"f","o","o","d">>, <<"t","r","u","c","k">>, <<"c","a","r","t">>, <<"v","e","n","d","o","r">>, <<"m","o","b","i","l","e">>>>, t)
        THEN FoodTruckSteps
        ELSE IF Contains(t, <<"h","a","i","r">>) \/ Contains(t, <<"s","a","l","o","n">>)
                \/ Contains(t, <<"b","a","r","b","e","r">>) \/ Contains(t, <<"b","e","a","u","t","y">>)
        THEN SalonSteps
        ELSE GenericSteps

GetFormationStepsSalonFirst(type) ==
    LET t == Lower(type)
    IN  IF Contains(t, <<"h","a","i","r">>) \/ Contains(t, <<"s","a","l","o","n">>)
           \/ Contains(t, <<"b","a","r","b","e","r">>) \/ Contains(t, <<"b","e","a","u","t","y">>)
        THEN SalonSteps
        ELSE IF Contains(t, <<"r","i","d","e","s","h","a","r","e">>) \/ AnyWordIn(<<<<"u","b","e","r">>, <<"l","y","f","t">>, <<"t","a","x","i">>>>, t)
        THEN RideshareSteps
        ELSE IF Contains(t, <<"f","o","o","d">>)
                /\ AnyWordIn(<<<<"t","r","u","c","k">>, <<"c","a","r","t">>, <<"v","e","n","d","o","r">>, <<"m","o","b","i","l","e">>>>, t)
        THEN FoodTruckSteps
        ELSE GenericSteps

\* _get_formation_steps(business_type).  Past the three catalogs the method
\* calls self._get_formation_steps_from_knowledge, which the class does not
\* define: the AttributeError is caught by the except branch (lines 556-568),
\* which returns the generic steps.
GetFormationSteps(type) ==
    LET t == Lower(type)
    IN  IF Contains(t, <<"r","i","d","e","s","h","a","r","e">>) \/ AnyWordIn(<<<<"u","b","e","r">>, <<"l","y","f","t">>, <<"t","a","x","i">>>>, t)
        THEN RideshareSteps
        ELSE IF Contains(t, <<"f","o","o","d">>)
                /\ AnyWordIn(<<<<"t","r","u","c","k">>, <<"c","a","r","t">>, <<"v","e","n","d","o","r">>, <<"m","o","b","i","l","e">>>>, t)
        THEN FoodTruckSteps
        ELSE IF Contains(t, <<"h","a","i","r">>) \/ Contains(t, <<"s","a","l","o","n">>)
                \/ Contains(t, <<"b","a","r","b","e","r">>) \/ Contains(t, <<"b","e","a","u","t","y">>)
        THEN SalonSteps
        ELSE GenericSteps

\* styles.get(category.lower(), "fill:#ddf"); the categories of the catalogs
\* are lower case already
GetStepStyle(category) ==
    CASE category = "legal"          -> "fill:#ddf"
      [] category = "financial"      -> "fill:#ffe"
      [] category = "administrative" -> "fill:#ddf"
      [] category = "compliance"     -> "fill:#bfb"
      [] OTHER                       -> "fill:#ddf"

\* f"step_{idx}" and f"parallel_{idx}_{p_idx}"; enumerate counts from 0
StepId(idx) == "step_" \o DecimalString(idx)

\* a branch id that leaves the step number out
ParallelIdFlat(idx, p_idx) == "parallel_" \o DecimalString(p_idx)

ParallelId(idx, p_idx) == "parallel_" \o DecimalString(idx) \o "_" \o DecimalString(p_idx)

Node(id, text, style) == [id |-> id, text |-> text, style |-> style]

\* lines 408-417: the branches of step number idx
RECURSIVE ParallelLoop(_, _, _, _)
ParallelLoop(parallel_steps, p, idx, graph) ==
    IF p > Len(parallel_steps) THEN graph
    ELSE ParallelLoop(parallel_steps, p + 1, idx,
            [nodes |-> Append(graph.nodes,
                              Node(ParallelId(idx, p - 1), parallel_steps[p].title,
                                   GetStepStyle(parallel_steps[p].category))),
             edges |-> Append(graph.edges, <<StepId(idx), ParallelId(idx, p - 1)>>)])

\* the loop over the steps with last_id left on the last branch of a step
\* that has branches
RECURSIVE StepLoopFromBranch(_, _, _, _)
StepLoopFromBranch(steps, i, last_id, graph) ==
    IF i > Len(steps) THEN graph
    ELSE LET step == steps[i]
             step_id == StepId(i - 1)
             g == [nodes |-> Append(graph.nodes,
                                    Node(step_id, step.title, GetStepStyle(step.category))),
                   edges |-> Append(graph.edges, <<last_id, step_id>>)]
         IN  IF "parallel_steps" \in DOMAIN step
             THEN StepLoopFromBranch(steps, i + 1,
                                     ParallelId(i - 1, Len(step.parallel_steps) - 1),
                                     ParallelLoop(step.parallel_steps, 1, i - 1, g))
             ELSE StepLoopFromBranch(steps, i + 1, step_id, g)

\* lines 398-419: the loop over the steps; i is idx + 1
RECURSIVE StepLoop(_, _, _, _)
StepLoop(steps, i, last_id, graph) ==
    IF i > Len(steps) THEN graph
    ELSE LET step == steps[i]
             step_id == StepId(i - 1)
             g == [nodes |-> Append(graph.nodes,
                                    Node(step_id, step.title, GetStepStyle(step.category))),
                   edges |-> Append(graph.edges, <<last_id, step_id>>)]
         IN  StepLoop(steps, i + 1, step_id,
                      IF "parallel_steps" \in DOMAIN step
                      THEN ParallelLoop(step.parallel_steps, 1, i - 1, g)
                      ELSE g)

\* the text of the structure node is built from the caller's string and is a
\* sequence of characters; the other texts are the catalog's titles
GenerateFormationFlowOf(type) ==
    LET normalized == Replace(Lower(type), "_", " ")
    IN  StepLoop(GetFormationSteps(normalized), 1, "structure",
                 [nodes |-> << Node("start", "Start", "fill:#f9f"),
                               Node("structure", Title(normalized) \o <<" ","S","t","r","u","c","t","u","r","e">>,
                                    "fill:#bbf") >>,
                  edges |-> << <<"start", "structure">> >>])

\* the words callers put in a business type, and the types made of them
BusinessWords ==
    { <<>>, <<"r","i","d","e","s","h","a","r","e">>, <<"U","b","e","r">>, <<"l","y","f","t">>, <<"T","A","X","I">>, <<"f","o","o","d">>, <<"F","o","o","d">>, <<"t","r","u","c","k">>, <<"c","a","r","t">>, <<"v","e","n","d","o","r">>,
      <<"m","o","b","i","l","e">>, <<"h","a","i","r">>, <<"S","a","l","o","n">>, <<"b","a","r","b","e","r">>, <<"b","e","a","u","t","y">>, <<"b","a","k","e","r","y">>, <<"c","o","n","s","u","l","t","i","n","g">>, <<"l","l","c">> }

BusinessTypes ==
    BusinessWords
    \cup {a \o <<sep>> \o b : a \in BusinessWords, b \in BusinessWords, sep \in {" ", "_"}}

NoFlow == [nodes |-> <<>>, edges |-> <<>>]

\* no call of generate_formation_flow made
InitFlow ==
    /\ business_type = None
    /\ formation_steps = <<>>
    /\ flow = NoFlow

\* generate_formation_flow(business_type) run from its call to its return;
\* the method reads and writes no state of the agent
GenerateFormationFlow ==
    /\ business_type \in BusinessTypes
    /\ flow = NoFlow
    /\ formation_steps' = GetFormationSteps(Replace(Lower(business_type), "_", " "))
    /\ flow' = GenerateFormationFlowOf(business_type)
    /\ UNCHANGED <<business_type, scraperVars, faqVars, callVars, docVars, programs>>

(***************************************************************************)
(* Calls of the methods that read and write no state: call is the method   *)
(* and its arguments, result what it returned.                             *)
(***************************************************************************)
NoResult == [done |-> FALSE]

InitCall ==
    /\ call = [op |-> "none"]
    /\ result = NoResult

\* the calls of _categorize_resource: titles and hrefs of link boxes
CategorizeCalls ==
    LET ResourceTitles ==
          { <<"B","u","s","i","n","e","s","s"," ","L","i","c","e","n","s","e"," ","W","i","z","a","r","d">>, <<"S","m","a","l","l"," ","B","u","s","i","n","e","s","s"," ","G","u","i","d","e">>, <<"P","a","y","r","o","l","l"," ","C","a","l","c","u","l","a","t","o","r">>,
            <<"S","t","a","r","t","u","p"," ","W","i","z","a","r","d">>, <<"C","o","n","t","a","c","t"," ","U","s">>, <<"A","b","o","u","t">>, <<>>, <<"O","P","E","N","I","N","G"," ","C","H","E","C","K","L","I","S","T">>, <<"H","e","l","p"," ","P","o","r","t","a","l">>,
            <<"T","r","a","i","n","i","n","g">>, <<"N","e","w","s">>, <<"F","o","r","m","s">> }
        ResourceHrefs ==
          { <<"h","t","t","p","s",":","/","/","d","o","r",".","w","a",".","g","o","v","/","x">>, <<"h","t","t","p","s",":","/","/","s","e","c","u","r","e",".","d","o","r",".","w","a",".","g","o","v","/","g","t","e","u","n","a","u","t","h","/","?","L","i","n","k","=","w","i","z">>,
            <<"/","s","i","t","e","/","a","l","i","a","s","_","_","b","u","s","i","n","e","s","s","/","8","7","5","/","H","o","m","e",".","a","s","p","x">>, <<"h","t","t","p","s",":","/","/","e","x","a","m","p","l","e",".","c","o","m","/">>, <<>>,
            <<"h","t","t","p","s",":","/","/","e","x","a","m","p","l","e",".","c","o","m","/","B","u","s","i","n","e","s","s","-","P","l","a","n">>, <<"h","t","t","p","s",":","/","/","h","e","l","p",".","b","u","s","i","n","e","s","s",".","w","a",".","g","o","v","/">>,
            <<"h","t","t","p","s",":","/","/","e","x","a","m","p","l","e",".","c","o","m","/","t","o","o","l","s">>, <<"H","T","T","P","S",":","/","/","B","L","S",".","D","O","R",".","W","A",".","G","O","V","/">> }
    IN  {[op |-> "_categorize_resource", title |-> t, url |-> u] :
            t \in ResourceTitles, u \in ResourceHrefs}

\* _categorize_resource(title, url) called and run to its return
CategorizeResourceCall ==
    /\ call.op = "_categorize_resource"
    /\ ~result.done
    /\ result' = [done |-> TRUE, value |-> CategorizeResource(call.title, call.url)]
    /\ UNCHANGED <<call, scraperVars, faqVars, flowVars, docVars, programs>>

(***************************************************************************)
(* State of the Database as save_faq and get_faq use it.                   *)
(*   faqs, links     the two tables; link_seq the AUTOINCREMENT counter    *)
(*   blobs           the JSON files of the content directory               *)
(*   writer          the save_faq call in progress: idle, or between the   *)
(*                   JSON write (line 90) and the transaction (line 93)    *)
(*   reader          the get_faq call in progress: idle, before the links  *)
(*                   query (line 122) or before the file read (line 127)   *)
(*   got             what the last get_faq returned                        *)
(*   saved           per id, the dict of the last save_faq that returned   *)
(*   tried           per id, the dicts save_faq was called with            *)
(*   saves, gets     counters that bound the exploration                   *)
(***************************************************************************)
FaqIds == {"a", "b"}

LinkForms == [text |-> "Business Licensing", value |-> "https://dor.wa.gov/licensing",
              type |-> "internal"]

LinkGuide == [text |-> "Small Business Guide", value |-> "https://www.business.wa.gov/guide",
              type |-> "internal"]

\* a link the page gave no text for
LinkNoText == [text |-> None, value |-> "https://dor.wa.gov/contact", type |-> "internal"]

FaqFirst(id) ==
    [question |-> "How do I get a license?", answer |-> "Apply online.",
     html_answer |-> "<p>Apply online.</p>", category |-> "General",
     links |-> <<LinkForms>>, metadata |-> [id |-> id]]

FaqSecond(id) ==
    [question |-> "How do I renew a license?", answer |-> "Renew every year.",
     html_answer |-> "<p>Renew every year.</p>", category |-> "Licensing",
     links |-> <<LinkGuide, LinkForms>>, metadata |-> [id |-> id]]

FaqBadLink(id) ==
    [question |-> "Who do I contact?", answer |-> "Call the department.",
     html_answer |-> "<p>Call the department.</p>", category |-> "General",
     links |-> <<LinkGuide, LinkNoText>>, metadata |-> [id |-> id]]

\* the shape get_faqs builds (wa_scraper.py lines 213-220): no html_answer,
\* no category
FaqScraped(id) ==
    [question |-> "How do I get a license?", answer |-> "Apply online.",
     links |-> <<LinkForms>>, metadata |-> [id |-> id]]

FaqInputs ==
    UNION { {FaqFirst(id), FaqSecond(id), FaqBadLink(id), FaqScraped(id)} : id \in FaqIds }

IdleWriter == [pc |-> "idle"]

IdleReader == [pc |-> "idle"]

\* no save_faq of the id has returned yet
NoSave == [valid |-> FALSE, faq |-> None]

InitDb ==
    /\ faqs = {}
    /\ links = <<>>
    /\ link_seq = 0
    /\ blobs = EmptyMap
    /\ writer = IdleWriter
    /\ reader = IdleReader
    /\ got = [id |-> None, found |-> FALSE, faq |-> None, returned |-> FALSE]
    /\ saved = [id \in FaqIds |-> NoSave]
    /\ tried = [id \in FaqIds |-> {}]
    /\ saves = 0
    /\ gets = 0

DocIds == {"d1", "d2"}

\* the documents save_document is called with; the third has no 'title', so
\* the tuple of the INSERT raises KeyError once the JSON file is written
DocInputs ==
    UNION { { [id |-> id, title |-> "Licensing Guide", url |-> "https://dor.wa.gov/guide.pdf",
               category |-> "licensing", content |-> "Apply online.", page_count |-> 2,
               metadata |-> [author |-> "DOR"]],
              [id |-> id, title |-> "Licensing Guide 2025", url |-> "https://dor.wa.gov/guide25.pdf",
               category |-> "guidance", content |-> "Renew every year.", page_count |-> 3,
               metadata |-> [author |-> "L&I"]],
              [id |-> id, url |-> "https://dor.wa.gov/fees.pdf",
               category |-> "fees", content |-> "The fee is $90.", page_count |-> 1,
               metadata |-> [author |-> "City"]] } : id \in DocIds }

\* the resources save_resource_link is called with: the default links, and
\* the first of them again with another url
ResourceInputs ==
    {DefaultResourceLinks[i] : i \in 1..Len(DefaultResourceLinks)} \cup
    {[DefaultResourceLinks[1] EXCEPT !.url = base_url, !.category = "other"]}

InitDoc ==
    /\ documents = {}
    /\ saved_docs = [id \in DocIds |-> [valid |-> FALSE, replaced |-> FALSE]]

\* the programs of the repository that construct a Database, each with the
\* number of Database objects it constructs (through WABusinessScraper,
\* WABusinessKnowledge, BusinessAgent or DocumentProcessor) and whether its
\* body sits in a try whose finally calls close():
\*   process_documents.py  processor = DocumentProcessor(); try/finally close
\*   test_scraper.py main  scraper = WABusinessScraper(); try/finally close
\*   test_scraper.py test_resource_links  scraper = WABusinessScraper()
\*   populate_vector_store.py main  WABusinessScraper() and DocumentProcessor()
\*   main.py  kb = WABusinessKnowledge(); agent = BusinessAgent()
EntryPoints ==
    [process_documents     |-> [opens |-> 1, finally |-> TRUE],
     test_scraper_main     |-> [opens |-> 1, finally |-> TRUE],
     test_resource_links   |-> [opens |-> 1, finally |-> FALSE],
     populate_vector_store |-> [opens |-> 2, finally |-> FALSE],
     main_app              |-> [opens |-> 2, finally |-> FALSE]]

\* no program started: conns holds the state of each connection the program
\* opened, closes the number of close() calls made on each
InitLife ==
    programs = [p \in DOMAIN EntryPoints |->
                   [pc |-> "start", conns |-> <<>>, closes |-> <<>>, raised |-> FALSE]]

Init == InitScraper /\ InitDb /\ InitFlow /\ InitCall /\ InitDoc /\ InitLife

\* save_faq(faq), lines 81-90: the dict is read and the JSON file written; a
\* dict without the keys raises KeyError before anything is written
SaveFaqContent ==
    /\ writer.pc = "idle"
    /\ saves < MaxSaves
    /\ \E faq \in FaqInputs :
         /\ saves' = saves + 1
         /\ tried' = [tried EXCEPT ![faq.metadata.id] = @ \cup {faq}]
         /\ IF HasBlobKeys(faq)
            THEN /\ blobs' = WriteFaqBlob(blobs, faq)
                 /\ writer' = [pc |-> "transaction", faq |-> faq]
            ELSE UNCHANGED <<blobs, writer>>
    /\ UNCHANGED <<faqs, links, link_seq, reader, got, saved, gets, scraperVars, flowVars, callVars, docVars, programs>>

\* save_faq, lines 93-108: the transaction commits and the call returns, or
\* rolls back and the call raises
SaveFaqRows ==
    /\ writer.pc = "transaction"
    /\ \E fails \in BOOLEAN :
         LET r == SaveFaqTransaction(faqs, links, link_seq, writer.faq, fails)
         IN  /\ faqs' = r.faqs
             /\ links' = r.links
             /\ link_seq' = r.link_seq
             /\ saved' = IF r.ok THEN [saved EXCEPT ![writer.faq.metadata.id] =
                                               [valid |-> TRUE, faq |-> writer.faq]]
                         ELSE saved
    /\ writer' = IdleWriter
    /\ UNCHANGED <<blobs, reader, got, tried, saves, gets, scraperVars, flowVars, callVars, docVars, programs>>

\* get_faq(faq_id), lines 114-119: the row is fetched, None returned if there
\* is none
GetFaqRow ==
    /\ reader.pc = "idle"
    /\ gets < MaxGets
    /\ \E faq_id \in FaqIds :
         IF faq_id \in Ids(faqs)
         THEN /\ reader' = [pc |-> "links", faq_row |-> Row(faqs, faq_id)]
              /\ got' = [id |-> faq_id, found |-> FALSE, faq |-> None, returned |-> FALSE]
         ELSE /\ reader' = IdleReader
              /\ got' = [id |-> faq_id, found |-> FALSE, faq |-> None, returned |-> TRUE]
    /\ gets' = gets + 1
    /\ UNCHANGED <<faqs, links, link_seq, blobs, writer, saved, tried, saves, scraperVars, flowVars, callVars, docVars, programs>>

\* get_faq, lines 122-124: the links of the id are fetched
GetFaqLinks ==
    /\ reader.pc = "links"
    /\ reader' = [pc |-> "content", faq_row |-> reader.faq_row,
                  links |-> SelectLinks(links, reader.faq_row.id)]
    /\ UNCHANGED <<faqs, links, link_seq, blobs, writer, got, saved, tried, saves, gets,
                   scraperVars, flowVars, callVars, docVars, programs>>

\* get_faq, lines 127-141: the JSON file is read and the dict returned
GetFaqContent ==
    /\ reader.pc = "content"
    /\ got' = [id |-> reader.faq_row.id, found |-> TRUE, returned |-> TRUE,
               faq |-> FaqDict(reader.faq_row, reader.links,
                               blobs[reader.faq_row.content_file])]
    /\ reader' = IdleReader
    /\ UNCHANGED <<faqs, links, link_seq, blobs, writer, saved, tried, saves, gets,
                   scraperVars, flowVars, callVars, docVars, programs>>


DocumentFile(document_id) == "doc_" \o document_id \o ".json"

\* save_document(document), lines 266-275: the dict is read and the JSON file
\* written, before and outside the transaction
SaveDocumentContent ==
    /\ writer.pc = "idle"
    /\ saves < MaxSaves
    /\ \E document \in DocInputs :
         /\ blobs' = Put(blobs, DocumentFile(document.id),
                         [content |-> document.content, metadata |-> document.metadata])
         /\ writer' = [pc |-> "document", document |-> document]
    /\ saves' = saves + 1
    /\ UNCHANGED <<faqs, links, link_seq, reader, got, saved, tried, gets, scraperVars,
                   flowVars, callVars, docVars, programs>>

\* save_document, lines 278-290: the INSERT OR REPLACE commits and the call
\* returns, or it raises (a missing key, a NULL title, an sqlite error) and
\* the table is as it was
SaveDocumentRow ==
    /\ writer.pc = "document"
    /\ LET document == writer.document
       IN  \E fails \in BOOLEAN :
             IF fails \/ "title" \notin DOMAIN document
             THEN UNCHANGED docVars
             ELSE /\ documents' = InsertOrReplace(documents,
                                     [id |-> document.id, title |-> document.title,
                                      url |-> document.url, category |-> document.category,
                                      content_file |-> DocumentFile(document.id),
                                      page_count |-> document.page_count])
                  /\ saved_docs' = [saved_docs EXCEPT ![document.id] =
                                       [valid |-> TRUE, document |-> document,
                                        replaced |-> document.id \in Ids(documents)]]
    /\ writer' = IdleWriter
    /\ UNCHANGED <<faqs, links, link_seq, blobs, reader, got, saved, tried, saves, gets,
                   scraperVars, flowVars, callVars, programs>>

\* get_document(document_id) run from start to end, lines 292-316
GetDocument(table, files, document_id) ==
    IF document_id \notin Ids(table) THEN [found |-> FALSE]
    ELSE LET row == Row(table, document_id)
             content == files[row.content_file]
         IN  [found |-> TRUE,
              document |-> [id |-> row.id, title |-> row.title, url |-> row.url,
                            category |-> row.category, content |-> content.content,
                            page_count |-> row.page_count, metadata |-> content.metadata]]

\* save_resource_link(resource), lines 157-172: one INSERT OR REPLACE in a
\* transaction, which commits or leaves the table as it was
SaveResourceLinkCall ==
    /\ saves < MaxSaves
    /\ \E resource \in ResourceInputs, fails \in BOOLEAN :
         resource_links' = IF fails THEN resource_links
                           ELSE SaveResourceLink(resource_links, resource)
    /\ saves' = saves + 1
    /\ UNCHANGED <<now, ticks, calls, cache, ret, hist, frame,
                   faqs, links, link_seq, blobs, writer, reader, got, saved, tried, gets,
                   flowVars, callVars, docVars, programs>>


\* the program constructs its objects: each Database() connects
\* (db.py line 16, sqlite3.connect)
Construct(p) ==
    /\ programs[p].pc = "start"
    /\ programs' = [programs EXCEPT ![p].pc = "body",
                                    ![p].conns = [i \in 1..EntryPoints[p].opens |-> "open"],
                                    ![p].closes = [i \in 1..EntryPoints[p].opens |-> 0]]
    /\ UNCHANGED <<scraperVars, faqVars, flowVars, callVars, docVars>>

\* the body of the program ends, by returning or by raising: control goes
\* to the finally clause if there is one, else the process ends
Body(p) ==
    /\ programs[p].pc = "body"
    /\ \E raises \in BOOLEAN :
         programs' = [programs EXCEPT
                         ![p].pc = IF EntryPoints[p].finally THEN "finally" ELSE "exited",
                         ![p].raised = raises]
    /\ UNCHANGED <<scraperVars, faqVars, flowVars, callVars, docVars>>

\* finally: processor.close() / scraper.close(), which is self.db.close()
\* and so self.conn.close() (db.py lines 344-346); then the process ends
Finally(p) ==
    /\ programs[p].pc = "finally"
    /\ programs' = [programs EXCEPT
                       ![p].pc = "exited",
                       ![p].conns = [i \in DOMAIN programs[p].conns |-> "closed"],
                       ![p].closes = [i \in DOMAIN programs[p].closes |->
                                         programs[p].closes[i] + 1]]
    /\ UNCHANGED <<scraperVars, faqVars, flowVars, callVars, docVars>>

(***************************************************************************)
(* Spec: the cache protocol.  The five accessors, clear_cache and the      *)
(* clock, with each accessor's fetch either failing or scraping one page.  *)
(***************************************************************************)
Next ==
    \/ GetMinimumWage(Lean(MinimumWageRuns, [washington |-> 1666]), MaxCalls)
    \/ GetLicenseRequirements(Lean(LicenseRequirementsRuns, <<"Collecting sales tax">>),
                              MaxCalls)
    \/ GetFees(Lean(FeesRuns, [new_business |-> 90]), MaxCalls)
    \/ GetFaqs(Lean(FaqsRuns, FetchFaqs([ok |-> TRUE, section |-> TRUE,
                                         cards |-> <<CardPlain>>]).value), MaxCalls)
    \/ GetResourceLinks(
         {FetchResourceLinks(p, resource_links) :
            p \in {q \in ResourcePages : ~q.ok \/ (q.boxes = <<BoxWizard>> /\ ~q.export_fails)}},
         MaxCalls)
    \/ ClearCache
    \/ Tick

Spec == Init /\ [][Next]_vars

(***************************************************************************)
(* SpecScrape: the extraction.  The accessors over every page the site can *)
(* serve.                                                                  *)
(***************************************************************************)
NextScrape ==
    \/ GetMinimumWage(MinimumWageRuns, MaxScrapes)
    \/ GetLicenseRequirements(LicenseRequirementsRuns, MaxScrapes)
    \/ GetFees(FeesRuns, MaxScrapes)
    \/ GetFaqs(FaqsRuns, MaxScrapes)
    \/ GetResourceLinks(ResourceLinksRuns(resource_links), MaxScrapes)
    \/ ClearCache

SpecScrape == Init /\ [][NextScrape]_vars

(***************************************************************************)
(* SpecRace: _get_cached_or_fetch followed statement by statement, for the *)
(* callers of one scraper.  Between two statements of a call the clock     *)
(* moves and the other caller, or clear_cache, runs.                       *)
(***************************************************************************)
LeanRuns(key, table) ==
    CASE key = "minimum_wage" -> Lean(MinimumWageRuns, [washington |-> 1666])
      [] key = "license_requirements" ->
            Lean(LicenseRequirementsRuns, <<"Collecting sales tax">>)
      [] key = "fees" -> Lean(FeesRuns, [new_business |-> 90])
      [] key = "faqs" -> {FetchFaqs(NoPage)}
      [] key = "resource_links" -> {FetchResourceLinks(NoPage, table)}

\* the call ends: it returns value or raises
End(c, key, outcome, value, fetched, run) ==
    /\ ret' = [key |-> key, outcome |-> outcome, value |-> value, fetched |-> fetched,
               run |-> run, time |-> now, prev |-> hist[key]]
    /\ hist' = [hist EXCEPT ![key] =
                  IF outcome = "returned" /\ key \in DOMAIN cache'
                  THEN [valid |-> TRUE, value |-> value, expires |-> cache'[key].expires,
                        stored |-> IF fetched THEN cache'[key].expires - TTL
                                   ELSE hist[key].stored,
                        source |-> IF fetched THEN run.source ELSE hist[key].source]
                  ELSE NoHist]
    /\ frame' = [frame EXCEPT ![c] = Idle]

\* line 26: if key not in self.cache
Check(c, key) ==
    /\ frame[c].pc = "idle"
    /\ calls < MaxCalls
    /\ calls' = calls + 1
    /\ frame' = [frame EXCEPT ![c] =
                   [pc |-> IF CacheContains(cache, key, now) THEN "read" ELSE "fetch",
                    key |-> key, fetched |-> FALSE, run |-> NoRun]]
    /\ UNCHANGED <<now, ticks, cache, ret, hist, resource_links, faqVars, flowVars, callVars, docVars, programs>>

\* lines 27-39: self.cache[key] = fetch_func(), and the except branch
Fetch(c) ==
    /\ frame[c].pc = "fetch"
    /\ \E run \in LeanRuns(frame[c].key, resource_links) :
         /\ resource_links' = IF frame[c].key = "resource_links" THEN run.table
                              ELSE resource_links
         /\ IF run.raised
            THEN /\ UNCHANGED cache
                 /\ End(c, frame[c].key,
                        IF DefaultFor(frame[c].key).ok THEN "returned" ELSE "raised",
                        DefaultFor(frame[c].key).value, TRUE, run)
            ELSE /\ cache' = CacheSet(cache, frame[c].key, run.value, now)
                 /\ frame' = [frame EXCEPT ![c] = [@ EXCEPT !.pc = "read", !.fetched = TRUE,
                                                            !.run = run]]
                 /\ UNCHANGED <<ret, hist>>
    /\ UNCHANGED <<now, ticks, calls, faqVars, flowVars, callVars, docVars, programs>>

\* line 40: return self.cache[key]
Read(c) ==
    /\ frame[c].pc = "read"
    /\ UNCHANGED cache
    /\ End(c, frame[c].key,
           IF CacheGet(cache, frame[c].key, now).ok THEN "returned" ELSE "raised",
           CacheGet(cache, frame[c].key, now).value, frame[c].fetched, frame[c].run)
    /\ UNCHANGED <<now, ticks, calls, resource_links, faqVars, flowVars, callVars, docVars, programs>>

NextRace ==
    \/ \E c \in Callers, key \in Keys : Check(c, key)
    \/ \E c \in Callers : Fetch(c)
    \/ \E c \in Callers : Read(c)
    \/ ClearCache
    \/ Tick

SpecRace == Init /\ [][NextRace]_vars

(***************************************************************************)
(* SpecDb: save_faq and get_faq followed statement by statement, a writer  *)
(* and a reader on the same database file and content directory.           *)
(***************************************************************************)
NextDb ==
    \/ SaveFaqContent
    \/ SaveFaqRows
    \/ GetFaqRow
    \/ GetFaqLinks
    \/ GetFaqContent

SpecDb == Init /\ [][NextDb]_vars

(***************************************************************************)
(* SpecStore: the three saves of the Database, save_faq and save_document  *)
(* statement by statement, one writer at a time.                           *)
(***************************************************************************)
NextStore ==
    \/ SaveFaqContent
    \/ SaveFaqRows
    \/ SaveDocumentContent
    \/ SaveDocumentRow
    \/ SaveResourceLinkCall

SpecStore == Init /\ [][NextStore]_vars

(***************************************************************************)
(* SpecLife: the programs that construct a Database, from start to exit.   *)
(* A started program runs on until its process ends, which is the weak     *)
(* fairness of its body and of its finally clause.                         *)
(***************************************************************************)
NextLife ==
    \E p \in DOMAIN EntryPoints :
        \/ Construct(p)
        \/ Body(p)
        \/ Finally(p)

SpecLife ==
    /\ Init
    /\ [][NextLife]_vars
    /\ \A p \in DOMAIN EntryPoints : WF_vars(Body(p) \/ Finally(p))

(***************************************************************************)
(* SpecFlow: generate_formation_flow over the business types.              *)
(***************************************************************************)
NextFlow == GenerateFormationFlow

\* a call with any of the business types
InitFlowCall ==
    /\ InitScraper
    /\ InitDb
    /\ business_type \in BusinessTypes
    /\ formation_steps = <<>>
    /\ flow = NoFlow
    /\ InitCall
    /\ InitDoc
    /\ InitLife

SpecFlow == InitFlowCall /\ [][NextFlow]_vars

(***************************************************************************)
(* SpecCategorize: _categorize_resource over titles and hrefs.             *)
(***************************************************************************)
InitCategorize ==
    /\ InitScraper
    /\ InitDb
    /\ InitFlow
    /\ call \in CategorizeCalls
    /\ result = NoResult
    /\ InitDoc
    /\ InitLife

SpecCategorize == InitCategorize /\ [][CategorizeResourceCall]_vars

(***************************************************************************)
(* SpecFrame: the accessors with the clock and clear_cache on a database   *)
(* nobody saves to, or the three saves with no accessor called.            *)
(***************************************************************************)
SpecFrame ==
    /\ Init
    /\ [][ \/ (saves = 0 /\ Next)
           \/ (calls = 0 /\ ticks = 0 /\ NextStore) ]_vars

(***************************************************************************)
(* SpecCalls: one call of _get_cached_or_fetch with a producer that        *)
(* returns or raises, or one run of the graph-building part of             *)
(* generate_formation_flow on a list of steps.                             *)
(***************************************************************************)
\* _get_cached_or_fetch(key, fetch_func): the five keys, each with a
\* fetch_func that returns a value and with one that raises
ProducerCalls ==
    {[op |-> "_get_cached_or_fetch", key |-> k, run |-> r] :
        k \in Keys,
        r \in {[raised |-> TRUE, value |-> <<>>, source |-> "error"],
               [raised |-> FALSE, value |-> <<"scraped value">>, source |-> "scraped"]}}

\* _get_cached_or_fetch called on the empty cache and run to its end
GetCachedOrFetchCall ==
    /\ call.op = "_get_cached_or_fetch"
    /\ ~result.done
    /\ LET r == GetCachedOrFetch(cache, call.key, call.run, now)
       IN  /\ cache' = r.cache
           /\ result' = [done |-> TRUE, outcome |-> r.outcome, value |-> r.value]
    /\ UNCHANGED <<call, now, ticks, calls, ret, hist, resource_links, frame,
                   faqVars, flowVars, docVars, programs>>

\* generate_formation_flow past line 380: the list formation_steps the awaited
\* _get_formation_steps handed back, a catalog cut after any number of its
\* steps (after none: the empty list)
CompileCalls ==
    LET catalogs == {RideshareSteps, FoodTruckSteps, SalonSteps, GenericSteps}
        lists == UNION {{SubSeq(c, 1, n) : n \in 0..Len(c)} : c \in catalogs}
    IN  {[op |-> "generate_formation_flow", type |-> t, steps |-> l] :
            t \in {<<>>, <<"b","a","k","e","r","y">>, <<"F","o","o","d","_","T","r","u","c","k">>}, l \in lists}

\* lines 383-422 on that list: the start and structure nodes, then the loop
CompileCall ==
    /\ call.op = "generate_formation_flow"
    /\ ~result.done
    /\ LET normalized == Replace(Lower(call.type), "_", " ")
       IN  flow' = StepLoop(call.steps, 1, "structure",
                       [nodes |-> << Node("start", "Start", "fill:#f9f"),
                                     Node("structure", Title(normalized) \o <<" ","S","t","r","u","c","t","u","r","e">>,
                                          "fill:#bbf") >>,
                        edges |-> << <<"start", "structure">> >>])
    /\ business_type' = call.type
    /\ formation_steps' = call.steps
    /\ result' = [done |-> TRUE]
    /\ UNCHANGED <<call, scraperVars, faqVars, docVars, programs>>

InitCalls ==
    /\ InitScraper
    /\ InitDb
    /\ InitFlow
    /\ call \in ProducerCalls \cup CompileCalls
    /\ result = NoResult
    /\ InitDoc
    /\ InitLife

SpecCalls == InitCalls /\ [][GetCachedOrFetchCall \/ CompileCall]_vars

(***************************************************************************)
(* Claims                                                                  *)
(***************************************************************************)
StaticDefault(key) ==
    CASE key = "minimum_wage"         -> DefaultMinimumWage
      [] key = "license_requirements" -> DefaultLicenseRequirements
      [] key = "fees"                 -> [new_business |-> 90, additional |-> 19]
      [] key = "faqs"                 -> DefaultFaqs
      [] key = "resource_links"       -> DefaultResourceLinks

\* C1: an accessor call whose page fetch fails returns the static default of
\* its category (for get_fees: new_business = 90, additional = 19) and does
\* not raise.
C1_FetchFailureReturnsDefault ==
    (ret.fetched /\ ret.run.source = "error")
        => (ret.outcome = "returned" /\ ret.value = StaticDefault(ret.key))

C1_Witness ==
    /\ ret.key = "fees" /\ ret.fetched /\ ret.run.source = "error"
    /\ ret.outcome = "returned"
    /\ ret.value = [new_business |-> 90, additional |-> 19]

\* C2: under every interleaving of accessor calls, clear_cache and the clock,
\* an accessor call returns a value and never raises.
C2_AccessorNeverRaises == ret.outcome # "raised"

\* C3: a call whose fetch fails creates no cache entry for its key, and the
\* next call of the same accessor (no clear_cache in between) fetches again.
C3_FailureNotCached ==
    /\ (ret.fetched /\ ret.run.source = "error") => ret.key \notin DOMAIN cache
    /\ (ret.outcome # "none" /\ ret.prev.valid /\ ret.prev.source = "error") => ret.fetched

\* C4: a call made while the entry the previous call of the same accessor
\* returned is within its TTL window, with no clear_cache in between, does not
\* invoke the producer and returns the same value; clear_cache leaves no key
\* in the cache, and the first call after it invokes the producer.
C4_CachedWithinTtlClearRefetches ==
    /\ (ret.outcome # "none" /\ ret.prev.valid /\ ret.time < ret.prev.expires)
          => (~ret.fetched /\ ret.outcome = "returned" /\ ret.value = ret.prev.value)
    /\ \A k \in DOMAIN cache : hist[k].valid
    /\ (ret.outcome # "none" /\ ~ret.prev.valid) => ret.fetched

C4_Witness ==
    /\ ret.outcome = "returned" /\ ret.prev.valid /\ ret.time < ret.prev.expires
    /\ ret.time > ret.prev.stored /\ ~ret.fetched /\ ret.value = ret.prev.value

\* C5: an entry stored at time t is what every call made before t + 3600
\* returns, and no call made at or after t + 3600 returns it: that call
\* invokes the producer.
C5_EntryVisibleUntilExpiry ==
    (ret.outcome # "none" /\ ret.prev.valid) =>
        /\ ret.time < ret.prev.stored + 3600
              => (~ret.fetched /\ ret.outcome = "returned" /\ ret.value = ret.prev.value)
        /\ ret.time >= ret.prev.stored + 3600 => ret.fetched

C5_Witness ==
    /\ ret.outcome = "returned" /\ ret.prev.valid
    /\ ret.time = ret.prev.stored + 3600 /\ ret.fetched

\* the links the resources section of a page holds: one per box that has both
\* a title and a link, in page order
ExpectedResources(page) ==
    LET kept == SelectSeq(page.boxes, LAMBDA b : b.has_title /\ b.has_link)
    IN  [i \in 1..Len(kept) |-> ResourceOfBox(kept[i])]

\* C6: after get_faqs returns a scraped (non-default) FAQ list, get_faq on the
\* metadata id of every FAQ of the list finds it in the database.
C6_ScrapedFaqsPersisted ==
    (ret.key = "faqs" /\ ret.fetched /\ ret.run.source = "scraped")
        => \A i \in 1..Len(ret.value) :
               GetFaq(faqs, links, blobs, ret.value[i].metadata.id).found

\* C7: a get_resource_links call that scrapes links passes every one of them
\* to save_resource_link, and whichever saves raise, and whether or not the
\* CSV export raises, it returns the complete scraped list and does not raise.
C7_SaveFailureKeepsScrapedList ==
    (ret.key = "resource_links" /\ ret.fetched /\ ret.run.source = "scraped")
        => /\ ret.outcome = "returned"
           /\ ret.value = ExpectedResources(ret.run.page)
           /\ ret.run.saves = ExpectedResources(ret.run.page)

C7_Witness ==
    /\ ret.key = "resource_links" /\ ret.fetched /\ ret.run.source = "scraped"
    /\ ret.run.page.boxes = <<BoxWizard, BoxGuide>>
    /\ ret.run.page.save_fails = {2}
    /\ ret.run.page.export_fails
    /\ ret.outcome = "returned"
    /\ Len(ret.value) = 2
    /\ Len(ret.run.saves) = 2

\* C8: whatever save_faq calls were made, the links stored for an id are the
\* links of the most recent save_faq of the id that returned, in that save's
\* order, with one faqs row for the id; a save_faq that raised left the row and
\* the links of the id as they were, and an id never saved has neither.
C8_LinksOfLastSave ==
    \A id \in FaqIds :
        IF saved[id].valid
        THEN /\ Cardinality({r \in faqs : r.id = id}) = 1
             /\ Row(faqs, id).question = saved[id].faq.question
             /\ Row(faqs, id).category = saved[id].faq.category
             /\ SelectLinks(links, id) = saved[id].faq.links
             /\ Len(SelectSeq(links, LAMBDA r : r.faq_id = id)) = Len(saved[id].faq.links)
        ELSE /\ id \notin Ids(faqs)
             /\ SelectLinks(links, id) = <<>>

C8_Witness ==
    /\ writer.pc = "idle"
    /\ tried["a"] = {FaqFirst("a"), FaqSecond("a")}
    /\ saved["a"] = [valid |-> TRUE, faq |-> FaqSecond("a")]
    /\ link_seq = 3
    /\ SelectLinks(links, "a") = <<LinkGuide, LinkForms>>

\* C9: a get_faq that finds the id returns one of the FAQs save_faq was called
\* with for that id, whole: question, category, links, answer and html_answer
\* all of the same save.
C9_GetFaqNeverTorn ==
    (got.returned /\ got.found) => got.faq \in tried[got.id]

\* the ids and the edges of a graph, as sets
NodeIds(graph) == {graph.nodes[i].id : i \in 1..Len(graph.nodes)}

EdgeSet(graph) == {graph.edges[i] : i \in 1..Len(graph.edges)}

\* no cycle: the nodes can be taken away source by source until none is left
RECURSIVE Acyclic(_, _)
Acyclic(ids, edges) ==
    IF ids = {} THEN TRUE
    ELSE LET sources == {n \in ids : ~\E e \in edges : e[2] = n /\ e[1] \in ids}
         IN  sources # {} /\ Acyclic(ids \ sources, edges)

\* C10: the graph generate_formation_flow returns has pairwise distinct node
\* ids, the endpoints of every edge are ids of its nodes, it has no cycle, and
\* start is its one node without an incoming edge.
C10_FlowGraphWellFormed ==
    flow # NoFlow =>
        /\ \A i, j \in 1..Len(flow.nodes) : i # j => flow.nodes[i].id # flow.nodes[j].id
        /\ \A e \in EdgeSet(flow) : e[1] \in NodeIds(flow) /\ e[2] \in NodeIds(flow)
        /\ Acyclic(NodeIds(flow), EdgeSet(flow))
        /\ {n \in NodeIds(flow) : ~\E e \in EdgeSet(flow) : e[2] = n} = {"start"}

C10_Witness ==
    /\ business_type = <<"U","b","e","r","_","l","l","c">>
    /\ Len(flow.nodes) = 20
    /\ Len(flow.edges) = 19
    /\ \E i \in 1..Len(flow.nodes) : flow.nodes[i].id = "parallel_6_2"
    /\ \E i \in 1..Len(flow.nodes) : flow.nodes[i].id = "parallel_4_2"

\* the business type of the call as generate_formation_flow normalizes it, and
\* the keywords it holds
NormalizedType == Replace(Lower(business_type), "_", " ")

HasRideshareWord ==
    \E w \in {<<"r","i","d","e","s","h","a","r","e">>, <<"u","b","e","r">>, <<"l","y","f","t">>, <<"t","a","x","i">>} : Contains(NormalizedType, w)

HasSalonWord ==
    \E w \in {<<"h","a","i","r">>, <<"s","a","l","o","n">>, <<"b","a","r","b","e","r">>, <<"b","e","a","u","t","y">>} : Contains(NormalizedType, w)

HasFoodTruckWords ==
    /\ Contains(NormalizedType, <<"f","o","o","d">>)
    /\ \E w \in {<<"t","r","u","c","k">>, <<"c","a","r","t">>, <<"v","e","n","d","o","r">>, <<"m","o","b","i","l","e">>} : Contains(NormalizedType, w)

HasLabel(label) == \E i \in 3..Len(flow.nodes) : flow.nodes[i].text = label

\* C11 (as amended): every call of generate_formation_flow returns a graph
\* built from one of the four catalogs; a type with a rideshare word (uber,
\* lyft, taxi, rideshare) gets the rideshare catalog; a type with a salon word
\* (hair, salon, barber, beauty), no rideshare word and not both "food" and a
\* food-truck word gets the personal-services catalog, with the label
\* "Cosmetology License"; a type with none of these gets the generic catalog.
C11_CatalogByKeywordPriority ==
    flow # NoFlow =>
        /\ formation_steps \in {RideshareSteps, FoodTruckSteps, SalonSteps, GenericSteps}
        /\ Len(flow.nodes) > 2
        /\ HasRideshareWord => formation_steps = RideshareSteps
        /\ (HasSalonWord /\ ~HasRideshareWord /\ ~HasFoodTruckWords)
              => (formation_steps = SalonSteps /\ HasLabel("Cosmetology License"))
        /\ (~HasRideshareWord /\ ~HasSalonWord /\ ~HasFoodTruckWords)
              => formation_steps = GenericSteps

C11_Witness ==
    /\ business_type = <<"h","a","i","r","_","S","a","l","o","n">>
    /\ formation_steps = SalonSteps
    /\ HasLabel("Cosmetology License")
    /\ ~HasLabel("Industry Permits")

\* C11 (as stated): a type with a rideshare word gets the rideshare catalog,
\* every type with a salon word gets the personal-services catalog, and a type
\* with no keyword gets the generic catalog.
C11_CatalogByKeyword ==
    flow # NoFlow =>
        /\ HasRideshareWord => formation_steps = RideshareSteps
        /\ HasSalonWord => (formation_steps = SalonSteps /\ HasLabel("Cosmetology License"))
        /\ (~HasRideshareWord /\ ~HasSalonWord /\ ~HasFoodTruckWords)
              => formation_steps = GenericSteps

\* the categories in their order of priority, each with its keyword list
CategoryOrder == <<"licensing", "planning", "tools", "guidance">>

CategoryWords == <<LicensingWords, PlanningWords, ToolsWords, GuidanceWords>>

\* the ranks of the categories one of whose keywords occurs in the lowercased
\* title, a space, and the lowercased url
MatchingRanks(title, url) ==
    {k \in 1..4 : \E i \in 1..Len(CategoryWords[k]) :
        Contains(Lower(title \o <<" ">> \o url), CategoryWords[k][i])}

\* C12: _categorize_resource returns one of licensing, planning, tools,
\* guidance, other: the first category in the order licensing > planning >
\* tools > guidance that has a keyword in the lowercased title + url, other
\* when none has; "Business License Wizard" with a dor.wa.gov url is licensing.
C12_FirstMatchingCategory ==
    (call.op = "_categorize_resource" /\ result.done) =>
        LET ranks == MatchingRanks(call.title, call.url)
        IN  /\ result.value \in {"licensing", "planning", "tools", "guidance", "other"}
            /\ ranks = {} => result.value = "other"
            /\ ranks # {} =>
                 result.value = CategoryOrder[CHOOSE k \in ranks : \A j \in ranks : k <= j]
            /\ (call.title = <<"B","u","s","i","n","e","s","s"," ","L","i","c","e","n","s","e"," ","W","i","z","a","r","d">>
                  /\ Contains(call.url, <<"d","o","r",".","w","a",".","g","o","v">>)) => result.value = "licensing"

C12_Witness ==
    /\ call = [op |-> "_categorize_resource", title |-> <<"B","u","s","i","n","e","s","s"," ","L","i","c","e","n","s","e"," ","W","i","z","a","r","d">>,
               url |-> <<"h","t","t","p","s",":","/","/","s","e","c","u","r","e",".","d","o","r",".","w","a",".","g","o","v","/","g","t","e","u","n","a","u","t","h","/","?","L","i","n","k","=","w","i","z">>]
    /\ result.done
    /\ result.value = "licensing"
    /\ 3 \in MatchingRanks(call.title, call.url)

\* C13: every wage table get_minimum_wage returns holds the state-wide entry
\* "washington".
C13_WageTableHasWashington ==
    (ret.key = "minimum_wage" /\ ret.outcome = "returned")
        => "washington" \in DOMAIN ret.value

\* C14: every mapping get_fees returns, scraped or default, has both keys,
\* new_business = 90 and additional = 19.
C14_FeesHaveBothKeys ==
    (ret.key = "fees" /\ ret.outcome = "returned")
        => /\ DOMAIN ret.value = {"new_business", "additional"}
           /\ ret.value.new_business = 90
           /\ ret.value.additional = 19

\* C15: when the scrape fails, get_minimum_wage returns a table whose
\* "washington" entry is 16.28, and get_license_requirements a list that
\* holds "Business requires city/state endorsements".
C15_FallbackValues ==
    (ret.fetched /\ ret.run.source = "error" /\ ret.outcome = "returned") =>
        /\ ret.key = "minimum_wage" =>
             ("washington" \in DOMAIN ret.value /\ ret.value.washington = 1628)
        /\ ret.key = "license_requirements" =>
             \E i \in 1..Len(ret.value) :
                 ret.value[i] = "Business requires city/state endorsements"

\* a FAQ link with text, value and a type of url or email, the value starting
\* with "http" for a url and with "mailto:" for an email
WellFormedFaqLink(link) ==
    /\ {"text", "value", "type"} \subseteq DOMAIN link
    /\ link.type \in {"url", "email"}
    /\ link.type = "url" => StartsWith(link.value, <<"h","t","t","p">>)
    /\ link.type = "email" => StartsWith(link.value, <<"m","a","i","l","t","o",":">>)

\* C16: every FAQ get_faqs returns, scraped or default, has the keys question,
\* answer, html_answer, links, category and metadata, the metadata holding id
\* and last_updated, and every link of it is well formed.
C16_FaqRecordShape ==
    (ret.key = "faqs" /\ ret.outcome = "returned") =>
        \A i \in 1..Len(ret.value) :
            /\ {"question", "answer", "html_answer", "links", "category", "metadata"}
                  \subseteq DOMAIN ret.value[i]
            /\ {"id", "last_updated"} \subseteq DOMAIN ret.value[i].metadata
            /\ \A j \in 1..Len(ret.value[i].links) : WellFormedFaqLink(ret.value[i].links[j])

\* C17: over save_faq, save_resource_link and save_document the ids of the
\* faqs, resource_links and documents tables never shrink; a row of the three
\* tables goes or changes only when a save of the same id overwrites it, and
\* a links row goes only when it belongs to the FAQ id being saved.
C17_RowsOnlyOverwritten ==
    [][ /\ Ids(faqs) \subseteq Ids(faqs')
        /\ Ids(resource_links) \subseteq Ids(resource_links')
        /\ Ids(documents) \subseteq Ids(documents')
        /\ \A r \in faqs \ faqs' :
              /\ writer.pc = "transaction"
              /\ r.id = writer.faq.metadata.id
              /\ \E n \in faqs' \ faqs : n.id = r.id
        /\ \A r \in documents \ documents' :
              /\ writer.pc = "document"
              /\ r.id = writer.document.id
              /\ \E n \in documents' \ documents : n.id = r.id
        /\ \A r \in resource_links \ resource_links' :
              \E n \in resource_links' \ resource_links : n.id = r.id
        /\ \A i \in 1..Len(links) :
              (\A k \in 1..Len(links') : links'[k] # links[i])
                  => /\ writer.pc = "transaction"
                     /\ links[i].faq_id = writer.faq.metadata.id ]_vars

\* save_document of "d1" has returned after replacing the row an earlier
\* save_document of "d1" had inserted
C17_Witness ==
    /\ saved_docs["d1"].valid
    /\ saved_docs["d1"].replaced
    /\ Row(documents, "d1").title = "Licensing Guide 2025"
    /\ writer.pc = "idle"

\* C18: with no save in progress, every row of faqs and documents names a
\* JSON file that exists, and get_faq / get_document of an id returns the
\* dict of the most recent save of the id that returned: its row fields
\* together with its answer and html_answer, or its content and metadata.
C18_ContentOfLastSuccessfulSave ==
    writer.pc = "idle" =>
        /\ \A r \in faqs \cup documents : r.content_file \in DOMAIN blobs
        /\ \A id \in FaqIds :
              saved[id].valid =>
                  GetFaq(faqs, links, blobs, id) = [found |-> TRUE, faq |-> saved[id].faq]
        /\ \A id \in DocIds :
              saved_docs[id].valid =>
                  GetDocument(documents, blobs, id) =
                      [found |-> TRUE, document |-> saved_docs[id].document]

\* C19: every connection a program opens is closed before the program has
\* ended, whether its body returned or raised, and close() is called on it
\* once at most.
C19_ConnectionsClosedAtShutdown ==
    \A p \in DOMAIN EntryPoints :
        /\ [](\A i \in DOMAIN programs[p].closes : programs[p].closes[i] <= 1)
        /\ (programs[p].pc = "body") ~>
               (\A i \in DOMAIN programs[p].conns : programs[p].conns[i] = "closed")

\* the indices of the edges that enter node n of the flow
Incoming(n) == {k \in 1..Len(flow.edges) : flow.edges[k][2] = n}

\* node n has one incoming edge, and it comes from parent
OnlyFrom(n, parent) ==
    /\ Cardinality(Incoming(n)) = 1
    /\ \A k \in Incoming(n) : flow.edges[k][1] = parent

\* the ids of the branches of step number i (counted from 1) of the catalog
BranchIds(i) ==
    IF "parallel_steps" \in DOMAIN formation_steps[i]
    THEN {ParallelId(i - 1, j - 1) : j \in 1..Len(formation_steps[i].parallel_steps)}
    ELSE {}

\* C20: in the graph of generate_formation_flow every node but start has one
\* incoming edge: structure from start, step_0 from structure, step_i from
\* step_{i-1}, each parallel_{i}_{j} from step_i; start has none, a parallel
\* node has no outgoing edge, and there are no other nodes.
C20_OneIncomingEdge ==
    flow # NoFlow =>
        /\ Incoming("start") = {}
        /\ OnlyFrom("structure", "start")
        /\ \A i \in 1..Len(formation_steps) :
              /\ OnlyFrom(StepId(i - 1), IF i = 1 THEN "structure" ELSE StepId(i - 2))
              /\ \A b \in BranchIds(i) :
                    /\ OnlyFrom(b, StepId(i - 1))
                    /\ \A k \in 1..Len(flow.edges) : flow.edges[k][1] # b
        /\ NodeIds(flow) = {"start", "structure"}
                               \cup {StepId(i - 1) : i \in 1..Len(formation_steps)}
                               \cup UNION {BranchIds(i) : i \in 1..Len(formation_steps)}

\* the rideshare graph: step_5 follows step_4, which has three branches
C20_Witness ==
    /\ flow # NoFlow
    /\ formation_steps = RideshareSteps
    /\ BranchIds(5) = {"parallel_4_0", "parallel_4_1", "parallel_4_2"}
    /\ \E k \in 1..Len(flow.edges) : flow.edges[k] = <<"step_4", "step_5">>
    /\ \E k \in 1..Len(flow.edges) : flow.edges[k] = <<"step_4", "parallel_4_2">>

HasAnyFoodWord ==
    \E w \in {<<"f","o","o","d">>, <<"t","r","u","c","k">>, <<"c","a","r","t">>, <<"v","e","n","d","o","r">>, <<"m","o","b","i","l","e">>} : Contains(NormalizedType, w)

\* C21 (as amended): the catalogs are tried in the order rideshare, food
\* truck, personal services, generic and the first match wins; the food-truck
\* catalog is the one of exactly the types that hold "food" together with one
\* of truck, cart, vendor, mobile and hold no rideshare word.
C21_FirstMatchWins ==
    flow # NoFlow =>
        /\ HasRideshareWord => formation_steps = RideshareSteps
        /\ (~HasRideshareWord /\ HasFoodTruckWords) => formation_steps = FoodTruckSteps
        /\ (~HasRideshareWord /\ ~HasFoodTruckWords /\ HasSalonWord)
              => formation_steps = SalonSteps
        /\ (~HasRideshareWord /\ ~HasFoodTruckWords /\ ~HasSalonWord)
              => formation_steps = GenericSteps
        /\ formation_steps = FoodTruckSteps => (~HasRideshareWord /\ HasFoodTruckWords)

\* "Uber salon" resolved to the rideshare catalog, with its three branches of
\* step_4
C21_Witness ==
    /\ business_type = <<"U","b","e","r"," ","S","a","l","o","n">>
    /\ HasRideshareWord /\ HasSalonWord
    /\ formation_steps = RideshareSteps
    /\ HasLabel("Vehicle Inspection")

\* C21 (as stated): first match wins, and a type with any one of food, truck,
\* cart, vendor, mobile and no rideshare word gets the food-truck catalog.
C21_AnyFoodWordSelects ==
    flow # NoFlow =>
        /\ HasRideshareWord => formation_steps = RideshareSteps
        /\ (~HasRideshareWord /\ HasAnyFoodWord) => formation_steps = FoodTruckSteps

\* the texts of the step nodes of the flow, in the order of the node list
RECURSIVE StepTexts(_)
StepTexts(i) ==
    IF i > Len(flow.nodes) THEN <<>>
    ELSE (IF \E k \in 1..Len(formation_steps) : flow.nodes[i].id = StepId(k - 1)
          THEN <<flow.nodes[i].text>> ELSE <<>>) \o StepTexts(i + 1)

\* C22: for a type that matches no specialized catalog the step nodes are
\* seven, in order: business registration, UBI number, federal EIN, business
\* license, industry permits, insurance, tax registration.
C22_SevenGenericSteps ==
    (flow # NoFlow /\ ~HasRideshareWord /\ ~HasFoodTruckWords /\ ~HasSalonWord) =>
        \E registration \in {"Choose Business Structure", "Register Business Name"} :
            StepTexts(3) = <<registration, "Get UBI Number", "Federal EIN",
                             "Business License", "Industry Permits",
                             "Business Insurance", "Sales Tax Registration">>

\* C23: a call of _get_cached_or_fetch whose producer raises returns the
\* static default of its key, leaves the cache without an entry for the key,
\* and does not raise, for each of the five keys.
C23_ProducerFailureReturnsDefault ==
    (result.done /\ call.op = "_get_cached_or_fetch" /\ call.run.raised) =>
        /\ result.outcome = "returned"
        /\ result.value = StaticDefault(call.key)
        /\ call.key \notin DOMAIN cache

\* C24: a get_resource_links call that ran its closure has written a
\* resource_links row for every link of the list it returns, or no row at all;
\* a call that returns the default list has written none, and the cache entry
\* of the key is the whole list returned.
C24_StoreAllOrNothing ==
    (ret.key = "resource_links" /\ ret.fetched /\ ret.outcome = "returned") =>
        /\ \/ resource_links = {}
           \/ Ids(resource_links) = {ResourceId(ret.value[i]) : i \in 1..Len(ret.value)}
        /\ ret.run.source # "scraped" => resource_links = {}
        /\ "resource_links" \in DOMAIN cache => cache["resource_links"].value = ret.value

\* the values a whole run of the producer of a key can hand back
CompleteValues(key) == {r.value : r \in LeanRuns(key, resource_links)}

\* C25: with two callers in the same accessor, a call that found no entry
\* and ran its fetch returns a value that one whole producer run produced, and
\* the cache entry of every key is at every moment absent or such a value.
C25_ConcurrentMissesReturnWholeValues ==
    /\ \A k \in DOMAIN cache : cache[k].value \in CompleteValues(k)
    /\ (ret.outcome # "none" /\ ret.fetched) =>
          /\ ret.outcome = "returned"
          /\ ret.value \in CompleteValues(ret.key) \cup {DefaultFor(ret.key).value}

\* the row of an id in a table, and the JSON file of a name, as a set that is
\* empty when there is none
RowsOf(table, id) == {r \in table : r.id = id}

FileOf(files, name) == IF name \in DOMAIN files THEN {files[name]} ELSE {}

\* the ids the save_faq and the save_document in progress are saving
FaqIdsInSave(w) == IF w.pc = "transaction" THEN {w.faq.metadata.id} ELSE {}

DocIdsInSave(w) == IF w.pc = "document" THEN {w.document.id} ELSE {}

\* C26: an accessor call for one key leaves the cache entry of every other
\* key as it was if it is live, and adds or replaces none; a step of save_faq
\* or save_document changes rows, links and JSON file of the id it is saving
\* only, and save_resource_link the row of one id only.
C26_OtherKeysAndIdsUnchanged ==
    [][ /\ calls' = calls + 1 =>
              \A k \in Keys \ {ret'.key} :
                  /\ Live(cache, k, now) => (k \in DOMAIN cache' /\ cache'[k] = cache[k])
                  /\ k \in DOMAIN cache' => (k \in DOMAIN cache /\ cache'[k] = cache[k])
        /\ calls' = calls =>
              /\ \A id \in FaqIds \ (FaqIdsInSave(writer) \cup FaqIdsInSave(writer')) :
                    /\ RowsOf(faqs', id) = RowsOf(faqs, id)
                    /\ SelectLinks(links', id) = SelectLinks(links, id)
                    /\ FileOf(blobs', ContentFile(id)) = FileOf(blobs, ContentFile(id))
              /\ \A id \in DocIds \ (DocIdsInSave(writer) \cup DocIdsInSave(writer')) :
                    /\ RowsOf(documents', id) = RowsOf(documents, id)
                    /\ FileOf(blobs', DocumentFile(id)) = FileOf(blobs, DocumentFile(id))
              /\ Cardinality({id \in Ids(resource_links) \cup Ids(resource_links') :
                                 RowsOf(resource_links', id) # RowsOf(resource_links, id)}) <= 1
    ]_vars

\* save_faq of "b" has returned after save_faq of "a", whose row, links and
\* file are those of its own save
C26_Witness ==
    /\ saved["a"].valid /\ saved["b"].valid
    /\ saved["a"].faq = FaqFirst("a") /\ saved["b"].faq = FaqSecond("b")
    /\ links[1].faq_id = "a" /\ Len(links) = 3
    /\ GetFaq(faqs, links, blobs, "a").faq = FaqFirst("a")
    /\ writer.pc = "idle"

\* C27: a get_minimum_wage call that ran its closure returns every region
\* the closure extracted, with the extracted amount: the state-wide wage if the
\* state page showed one, and each city matched on the local page, whatever
\* became of the other page or the other regions.
C27_ExtractedRegionsKept ==
    (ret.key = "minimum_wage" /\ ret.fetched /\ ret.outcome = "returned") =>
        \A p \in WagePages :
            FetchMinimumWage(p) = ret.run =>
                /\ (p.state_ok /\ p.state_wage > 0) =>
                      /\ "washington" \in DOMAIN ret.value
                      /\ ret.value["washington"] = p.state_wage
                /\ p.local_ok =>
                      \A city \in DOMAIN p.found :
                          /\ city \in DOMAIN ret.value
                          /\ ret.value[city] = p.found[city]

\* C28: the FAQs one get_faqs call scraped have pairwise distinct metadata
\* ids, whether a card carries an id of its own or receives faq_{n}.
C28_FaqIdsDistinct ==
    (ret.key = "faqs" /\ ret.fetched /\ ret.outcome = "returned"
        /\ ret.run.source = "scraped") =>
        \A i, j \in 1..Len(ret.value) :
            i # j => ret.value[i].metadata.id # ret.value[j].metadata.id

\* the number of parallel sub-steps of a list of steps
ParallelCount(steps) ==
    Cardinality(UNION { {<<i, j>> : j \in 1..Len(steps[i].parallel_steps)} :
                        i \in {k \in 1..Len(steps) : "parallel_steps" \in DOMAIN steps[k]} })

\* the label of the structure node for the types of the calls
StructureLabel(type) ==
    CASE type = <<>> -> <<" ","S","t","r","u","c","t","u","r","e">>
      [] type = <<"b","a","k","e","r","y">> -> <<"B","a","k","e","r","y"," ","S","t","r","u","c","t","u","r","e">>
      [] type = <<"F","o","o","d","_","T","r","u","c","k">> -> <<"F","o","o","d"," ","T","r","u","c","k"," ","S","t","r","u","c","t","u","r","e">>

\* C29: the graph built from a list of steps has the nodes start and
\* structure first, structure labelled with the title-cased business type, and
\* start -> structure as its first edge; it has 2 + steps + parallel sub-steps
\* nodes and one edge fewer; from the empty list these two nodes and this edge
\* are all of it.
C29_GraphSize ==
    (result.done /\ call.op = "generate_formation_flow") =>
        /\ flow.nodes[1] = [id |-> "start", text |-> "Start", style |-> "fill:#f9f"]
        /\ flow.nodes[2] = [id |-> "structure", text |-> StructureLabel(call.type),
                            style |-> "fill:#bbf"]
        /\ flow.edges[1] = <<"start", "structure">>
        /\ Len(flow.nodes) = 2 + Len(call.steps) + ParallelCount(call.steps)
        /\ Len(flow.edges) = Len(flow.nodes) - 1
        /\ call.steps = <<>> => (Len(flow.nodes) = 2 /\ Len(flow.edges) = 1)

\* the empty list compiled for "Food_Truck"
C29_Witness ==
    /\ result.done
    /\ call.op = "generate_formation_flow"
    /\ call.type = <<"F","o","o","d","_","T","r","u","c","k">>
    /\ call.steps = <<>>
    /\ Len(flow.nodes) = 2
    /\ flow.edges = << <<"start", "structure">> >>

\* the style of the node of step number i (counted from 1) of the flow
StyleOfStep(i) ==
    flow.nodes[CHOOSE k \in 1..Len(flow.nodes) : flow.nodes[k].id = StepId(i - 1)].style

\* C30: the categories legal, financial, administrative and compliance have
\* four pairwise different styles: two steps of the flow have the same style
\* only if they have the same category.
C30_CategoryStylesDiffer ==
    flow # NoFlow =>
        \A i, j \in 1..Len(formation_steps) :
            formation_steps[i].category # formation_steps[j].category
                => StyleOfStep(i) # StyleOfStep(j)

====
